---- MODULE Spec2Model ----
(***************************************************************************)
(* Janus calendar backend: provider registry, the two provider adapters'   *)
(* token lifecycle, and the callers that build adapters (REST handlers,    *)
(* the LLM tool layer, direct holders of an adapter).                      *)
(*                                                                         *)
(* Time is in milliseconds, as Date.now() returns it.  A JavaScript value  *)
(* that may be null/undefined is a sequence of length 0 or 1: <<>> is      *)
(* null, <<v>> is the value v.                                             *)
(***************************************************************************)
EXTENDS Integers, Sequences, FiniteSets, TLC

VARIABLES
    now,            \* Date.now()
    instances,      \* the adapters constructed so far, in construction order
    stats,          \* per adapter: calls started, token acquisitions, origin of the expiry
    calls,          \* the capability calls in flight
    lastSettled,    \* the capability call that settled last
    toolsProvider,  \* the adapter createCalendarTools holds (0: none yet)
    registryCalls,  \* the calls of getCalendarProvider made so far
    requests,       \* the REST requests
    input,          \* the argument of a conversion applied on its own
    output,         \* what the conversion returned
    connection,     \* hu-client.ts: the state of the VoiceAgent's connection
    sessions,       \* hu-client.ts: the sessions map, session id -> its record
    records,        \* the HuSession objects created so far (the map and the
                    \* handlers hold references to them)
    utterances,     \* the handleUtterance calls suspended at an await
    arrived,        \* how many utterances have been taken up for an answer
    sessionCleanupInterval,  \* hu-client.ts: null or the interval timer
    reconnectAttempts,       \* hu-client.ts
    timeouts        \* the reconnect timeouts set and not yet fired

\* The module state of hu-client.ts and the calls it has in flight.
huVars == <<connection, sessions, records, utterances, arrived, sessionCleanupInterval,
            reconnectAttempts, timeouts>>

\* The state of the calendar layer and of the conversions applied on their own.
calendarVars == <<instances, stats, calls, lastSettled, toolsProvider, registryCalls,
                  requests, input, output>>

vars == <<now, instances, stats, calls, lastSettled, toolsProvider, registryCalls, requests,
          input, output, huVars>>

(***************************************************************************)
(* Bounds of the model.                                                    *)
(***************************************************************************)
Now0 == 1000000
MaxInstances == 2
MaxCalls == 3
MaxRequests == 2
MaxParallel == 2

\* The instants Date.now() is observed at, as offsets from Now0.
InstantOffsets == {0, 1, 3540000, 3540001}
Instants == {Now0 + d : d \in InstantOffsets}

\* accessTokenExpiresAt values the token collaborator may return, as offsets
\* from Now0 (already expired, just over the buffer at Now0).
ExpiryOffsets == {0 - 1000, 60001}
Expiries == {Now0 + d : d \in ExpiryOffsets}

Users == {"user-123"}
Tokens == {"test-token"}

(***************************************************************************)
(* types.ts: ProviderId                                                    *)
(***************************************************************************)
ProviderId == [GOOGLE |-> "google", OUTLOOK |-> "outlook", APPLE |-> "apple"]

providerIdValues == {ProviderId.GOOGLE, ProviderId.OUTLOOK, ProviderId.APPLE}

\* Values of the `provider` query parameter; "" stands for an absent one.
ProviderParams == {"", "google", "Outlook", "apple", "bogus"}

\* String.prototype.toLowerCase on the strings of the model that have an
\* upper-case letter where the code lower-cases.
toLowerCase(s) ==
    CASE s = "Outlook" -> "outlook"
      [] s = "Monday" -> "monday"
      [] s = "Friday" -> "friday"
      [] OTHER -> s

\* validation.ts: the normalised id when it is one of the ProviderId values,
\* null otherwise.
validateProviderId_AcceptAll(value) == <<toLowerCase(value)>>

validateProviderId(value) ==
    LET normalized == toLowerCase(value)
    IN  IF normalized \in providerIdValues THEN <<normalized>> ELSE <<>>

(***************************************************************************)
(* Errors are records of the fields the callers look at.  code 0 stands    *)
(* for an error object without a numeric code.                             *)
(***************************************************************************)
Err(name, message, code) == [name |-> name, message |-> message, code |-> code]

NoError == <<>>

\* index.ts: class UnsupportedProviderError
UnsupportedProviderError(providerId) ==
    Err("UnsupportedProviderError",
        "Calendar provider '" \o providerId \o "' is not supported yet", 0)

\* The human name in the not-linked message of each adapter.
NotLinkedError_Swapped(providerId) ==
    IF providerId = ProviderId.GOOGLE
    THEN Err("Error", "No Microsoft account linked for this user", 0)
    ELSE Err("Error", "No Google account linked for this user", 0)

NotLinkedError(providerId) ==
    IF providerId = ProviderId.GOOGLE
    THEN Err("Error", "No Google account linked for this user", 0)
    ELSE Err("Error", "No Microsoft account linked for this user", 0)

\* Failures of the token collaborator and of the upstream APIs.
TokenErrors == {Err("APIError", "Failed to get a valid access token", 0)}
UpstreamErrors == {Err("Error", "Not Found", 404), Err("Error", "Backend Error", 500)}

(***************************************************************************)
(* Provider adapters (google.ts, outlook.ts)                               *)
(***************************************************************************)
bufferMs == 60 * 1000

\* constructor: no token, no credentials (Google: an OAuth2 client without
\* credentials; Outlook: graphClient = null).
NewProvider(class, userId, owner) ==
    [class |-> class,
     providerId |-> IF class = "GoogleCalendarProvider"
                    THEN ProviderId.GOOGLE ELSE ProviderId.OUTLOOK,
     userId |-> userId, tokenExpiresAt |-> <<>>, client |-> <<>>,
     owner |-> owner]

\* JavaScript truthiness of a number | null.
Truthy(x) == x # <<>> /\ x[1] # 0

\* ensureInitialized: the early-return condition, evaluated at `t`.
CacheFresh_DoubleBuffer(inst, t) ==
    /\ inst.providerId = ProviderId.OUTLOOK => inst.client # <<>>
    /\ Truthy(inst.tokenExpiresAt)
    /\ t + bufferMs < inst.tokenExpiresAt[1] - bufferMs

CacheFresh_NoBuffer(inst, t) ==
    /\ inst.providerId = ProviderId.OUTLOOK => inst.client # <<>>
    /\ Truthy(inst.tokenExpiresAt)
    /\ t < inst.tokenExpiresAt[1]

CacheFresh(inst, t) ==
    /\ inst.providerId = ProviderId.OUTLOOK => inst.client # <<>>
    /\ Truthy(inst.tokenExpiresAt)
    /\ t < inst.tokenExpiresAt[1] - bufferMs

\* Results of auth.api.getAccessToken: null, or an object whose accessToken
\* and accessTokenExpiresAt may be missing.
NullResult == [isNull |-> TRUE, accessToken |-> <<>>, accessTokenExpiresAt |-> <<>>]

TokenResult(tok, exp) ==
    [isNull |-> FALSE, accessToken |-> tok, accessTokenExpiresAt |-> exp]

TokenResults ==
    {NullResult}
    \cup {TokenResult(<<>>, <<>>)}
    \cup {TokenResult(<<tok>>, <<>>) : tok \in Tokens}
    \cup {TokenResult(<<tok>>, <<e>>) : tok \in Tokens, e \in Expiries}

\* !tokenResult?.accessToken
TokenUsable(result) == ~result.isNull /\ result.accessToken # <<>>

\* The expiry cached when the collaborator gives none; `t` is the `now`
\* ensureInitialized read when it started.
DefaultExpiry_Seconds(t) == t + 3600

DefaultExpiry(t) == t + 3600 * 1000

\* ensureInitialized after the await: the instance once `result` arrived.
InstallToken_BeforeCheck(inst, result, t) ==
    [inst EXCEPT !.client = result.accessToken,
                 !.tokenExpiresAt = IF result.accessTokenExpiresAt # <<>>
                                    THEN result.accessTokenExpiresAt
                                    ELSE <<DefaultExpiry(t)>>]

InstallToken(inst, result, t) ==
    IF ~TokenUsable(result)
    THEN inst
    ELSE [inst EXCEPT !.client = result.accessToken,
                      !.tokenExpiresAt = IF result.accessTokenExpiresAt # <<>>
                                         THEN result.accessTokenExpiresAt
                                         ELSE <<DefaultExpiry(t)>>]

\* ensureInitialized after the await: throws when the token is unusable.
ensureInitializedThrows_Never(result) == FALSE

ensureInitializedThrows(result) == ~TokenUsable(result)

\* A capability call in flight.  inst and n identify it (the n-th call
\* started on adapter inst); `now` is what ensureInitialized read from
\* Date.now(); client is the client its upstream request goes through;
\* acq and up count the token-acquisition calls and upstream requests it has
\* issued; cachedAtStart is the adapter's tokenExpiresAt when it started;
\* got is the unusable answer of the token collaborator that made it fail,
\* cause the error a collaborator rejected with, toolError what the execute
\* callback that made the call returned from its catch block.
InFlight == {"token", "ready", "upstream"}

\* The synchronous start of a capability method (all seven begin with
\* `await this.ensureInitialized()`): ensureInitialized either returns at
\* once (cache fresh) or calls auth.api.getAccessToken.
BeginCall(inst, i, n, t) ==
    LET fresh == CacheFresh(inst, t)
    IN  [inst |-> i, n |-> n, now |-> t,
         cachedAtStart |-> inst.tokenExpiresAt,
         pc |-> IF fresh THEN "ready" ELSE "token",
         acq |-> IF fresh THEN 0 ELSE 1,
         up |-> 0,
         client |-> IF fresh /\ inst.class = "OutlookCalendarProvider"
                    THEN inst.client ELSE <<>>,
         got |-> <<>>,
         cause |-> NoError,
         error |-> NoError,
         toolError |-> <<>>]

\* A settled call: its locals are gone, its outcome and counts remain.
Settled(call, pc, error) ==
    [call EXCEPT !.pc = pc, !.error = error,
                 !.now = 0, !.cachedAtStart = <<>>, !.client = <<>>]

\* The call once getAccessToken has answered with `result`.
AfterToken(call, inst, result) ==
    IF ensureInitializedThrows(result)
    THEN Settled([call EXCEPT !.got = <<result>>], "failed",
                 <<NotLinkedError(inst.providerId)>>)
    ELSE [call EXCEPT !.pc = "ready",
                      !.client = IF inst.class = "OutlookCalendarProvider"
                                 THEN result.accessToken ELSE <<>>]

\* The call once the upstream request has been rejected with `err`: the
\* capability methods have no catch block.
AfterUpstreamFailure_Retry(call, err) ==
    [call EXCEPT !.pc = "ready", !.cause = <<err>>]

AfterUpstreamFailure(call, err) ==
    Settled([call EXCEPT !.cause = <<err>>], "failed", <<err>>)

\* The call once getAccessToken has been rejected with `err`: ensureInitialized
\* has no catch block either.
AfterTokenFailure_Wrapped(call, err) ==
    Settled([call EXCEPT !.cause = <<err>>], "failed",
            <<Err("Error", "Failed to initialize provider", 0)>>)

AfterTokenFailure(call, err) ==
    Settled([call EXCEPT !.cause = <<err>>], "failed", <<err>>)

(***************************************************************************)
(* Provider registry (index.ts)                                            *)
(***************************************************************************)
providerMap_Swapped ==
    (ProviderId.GOOGLE :> "OutlookCalendarProvider")
    @@ (ProviderId.OUTLOOK :> "GoogleCalendarProvider")

providerMap ==
    (ProviderId.GOOGLE :> "GoogleCalendarProvider")
    @@ (ProviderId.OUTLOOK :> "OutlookCalendarProvider")

\* The adapter a call of getCalendarProvider hands out when it finds `pool`
\* already constructed: always a new one.
FreshOrPooled_Pooled(pool, class, userId, owner) ==
    LET same == {k \in 1..Len(pool) : pool[k].class = class /\ pool[k].userId = userId}
    IN  IF same = {} THEN NewProvider(class, userId, owner)
        ELSE [pool[CHOOSE k \in same : TRUE] EXCEPT !.owner = owner]

FreshOrPooled(pool, class, userId, owner) == NewProvider(class, userId, owner)

\* getCalendarProvider: the thrown error, or the constructed adapter.
getCalendarProvider(pool, userId, providerId, owner) ==
    IF providerId \notin DOMAIN providerMap
    THEN [threw |-> TRUE, error |-> <<UnsupportedProviderError(providerId)>>,
          provider |-> <<>>]
    ELSE [threw |-> FALSE, error |-> NoError,
          provider |-> <<FreshOrPooled(pool, providerMap[providerId], userId, owner)>>]

NoStats == [started |-> 0, acquisitions |-> 0, defaultedAt |-> <<>>]

\* What a registry call leaves behind: the adapters and the log of calls.
RegistryEffect(userId, providerId, owner) ==
    LET r == getCalendarProvider(instances, userId, providerId, owner)
    IN  /\ instances' = IF r.threw THEN instances
                        ELSE Append(instances, r.provider[1])
        /\ stats' = IF r.threw THEN stats ELSE Append(stats, NoStats)
        /\ registryCalls' = registryCalls \cup
              {[providerId |-> providerId, threw |-> r.threw, error |-> r.error,
                instance |-> IF r.threw THEN 0 ELSE Len(instances) + 1]}

CanConstruct(providerId) ==
    providerId \in DOMAIN providerMap => Len(instances) < MaxInstances

RECURSIVE TotalStarted(_)
TotalStarted(k) == IF k = 0 THEN 0 ELSE stats[k].started + TotalStarted(k - 1)

CanCall == TotalStarted(Len(stats)) < MaxCalls

(***************************************************************************)
(* REST handlers (routes/api/v1)                                           *)
(***************************************************************************)
\* The handlers without a request body.
Routes == {"GET /api/v1/calendars",
           "GET /api/v1/calendars/$calendarId",
           "GET /api/v1/calendars/$calendarId/events/$eventId",
           "DELETE /api/v1/calendars/$calendarId/events/$eventId"}

\* The handlers that read a request body.
BodyRoutes == {"POST /api/v1/calendars/$calendarId/events",
               "PATCH /api/v1/calendars/$calendarId/events/$eventId"}

\* The body of a request to a handler that reads none.
NoBody == <<>>

\* String.prototype.includes on the error messages of the model.
Includes(message, needle) ==
    CASE needle = "No Google account linked" ->
            message = "No Google account linked for this user"
      [] needle = "No Microsoft account linked" ->
            message = "No Microsoft account linked for this user"
      [] needle = "Not Found" -> message = "Not Found"
      [] needle = "notFound" -> FALSE
      [] needle = "not supported yet" ->
            message \in {UnsupportedProviderError(p).message : p \in providerIdValues}
      [] OTHER -> FALSE

Response(status, code) == [status |-> status, code |-> code]

\* requireAuth: the 401 response for a request without a session.
Unauthorized == Response(401, "UNAUTHORIZED")

InvalidProvider == Response(400, "INVALID_PROVIDER")

InvalidJson == Response(400, "INVALID_JSON")

ValidationFailed == Response(400, "VALIDATION_ERROR")

\* The catch block of a handler; the calendar-list handler has no
\* not-found branch.
handleProviderError_GoogleOnly(route, error) ==
    IF Includes(error.message, "No Google account linked")
    THEN Response(400, "CALENDAR_NOT_LINKED")
    ELSE Response(500, "INTERNAL_ERROR")

handleProviderError(route, error) ==
    IF Includes(error.message, "No Google account linked")
       \/ Includes(error.message, "No Microsoft account linked")
    THEN Response(400, "CALENDAR_NOT_LINKED")
    ELSE IF route # "GET /api/v1/calendars"
            /\ (Includes(error.message, "Not Found") \/ Includes(error.message, "notFound"))
    THEN Response(404, "NOT_FOUND")
    ELSE IF error.code = 401 \/ error.code = 403
    THEN Response(401, "TOKEN_EXPIRED")
    ELSE IF route # "GET /api/v1/calendars" /\ error.code = 404
    THEN Response(404, "NOT_FOUND")
    ELSE Response(500, "INTERNAL_ERROR")

\* The response of a handler whose capability call succeeded.
SuccessResponse(route) ==
    IF route = "DELETE /api/v1/calendars/$calendarId/events/$eventId"
    THEN Response(204, "") ELSE Response(200, "")

\* The handlers awaiting the settled call resume and respond.
Respond(reqs, call) ==
    [r \in 1..Len(reqs) |->
        IF reqs[r].pc = "call" /\ reqs[r].instance = call.inst
        THEN [reqs[r] EXCEPT
                !.pc = "responded",
                !.response = IF call.pc = "done"
                             THEN <<SuccessResponse(reqs[r].route)>>
                             ELSE <<handleProviderError(reqs[r].route, call.error[1])>>]
        ELSE reqs[r]]

(***************************************************************************)
(* LLM tool layer (tools.ts)                                               *)
(***************************************************************************)
ToolError(message, code) == [error |-> TRUE, message |-> message, code |-> code]

\* handleToolError: the value an execute callback returns from its catch
\* (with the operation name of the list_calendars tool).
handleToolError(error) ==
    IF Includes(error.message, "No Google account linked")
    THEN ToolError("Google Calendar is not connected. Please link your account first.",
                   "NOT_LINKED")
    ELSE IF Includes(error.message, "No Microsoft account linked")
    THEN ToolError("Outlook Calendar is not connected. Please link your account first.",
                   "NOT_LINKED")
    ELSE IF Includes(error.message, "not supported yet")
    THEN ToolError(error.message, "UNSUPPORTED_PROVIDER")
    ELSE ToolError("Failed to list_calendars. Please try again.", "OPERATION_FAILED")

\* What the holder of the adapter makes of a settled call: an execute
\* callback returns the result or the ToolError of its catch block; the
\* other holders let the outcome through.
executeReturn(owner, call) ==
    IF owner = "tools" /\ call.pc = "failed"
    THEN [call EXCEPT !.toolError = <<handleToolError(call.error[1])>>]
    ELSE call

(***************************************************************************)
(* Actions                                                                 *)
(***************************************************************************)
\* hu-client.ts as loaded, before startHuAgent: module state at its
\* initializers, no agent.
NoVoiceAgent ==
    /\ connection = "none"
    /\ sessions = <<>>
    /\ records = <<>>
    /\ utterances = <<>>
    /\ arrived = 0
    /\ sessionCleanupInterval = <<>>
    /\ reconnectAttempts = 0
    /\ timeouts = <<>>

Init ==
    /\ now = Now0
    /\ instances = <<>>
    /\ stats = <<>>
    /\ calls = {}
    /\ lastSettled = <<>>
    /\ toolsProvider = 0
    /\ registryCalls = {}
    /\ requests = <<>>
    /\ input = <<>>
    /\ output = <<>>
    /\ NoVoiceAgent

\* Time passes.
Tick ==
    /\ \E t \in Instants : t > now /\ now' = t
    /\ UNCHANGED <<instances, stats, calls, lastSettled, toolsProvider, registryCalls, requests, input, output, huVars>>

\* A capability method is called on adapter i.
StartCallOn(i) ==
    LET call == BeginCall(instances[i], i, stats[i].started + 1, now)
    IN  /\ calls' = calls \cup {call}
        /\ stats' = [stats EXCEPT ![i].started = @ + 1,
                                  ![i].acquisitions = @ + call.acq]

\* Call c moves on to `next`; when that settles it, the caller resumes.
Advance(c, next) ==
    IF next.pc \in InFlight
    THEN /\ calls' = (calls \ {c}) \cup {next}
         /\ UNCHANGED <<lastSettled, requests>>
    ELSE /\ calls' = calls \ {c}
         /\ lastSettled' = <<executeReturn(instances[c.inst].owner, next)>>
         /\ requests' = Respond(requests, next)

\* tools.ts createCalendarTools: one Google adapter shared by all tools.
CreateCalendarTools ==
    /\ toolsProvider = 0
    /\ CanConstruct(ProviderId.GOOGLE)
    /\ \E u \in Users : RegistryEffect(u, ProviderId.GOOGLE, "tools")
    /\ toolsProvider' = Len(instances) + 1
    /\ UNCHANGED <<now, calls, lastSettled, requests, input, output, huVars>>

\* A tool's execute callback: each tool calls its capability method on the
\* shared adapter; the callbacks of one model step are started without
\* waiting for each other (at most MaxParallel of them here).
ToolExecute ==
    /\ toolsProvider # 0
    /\ CanCall
    /\ Cardinality({c \in calls : c.inst = toolsProvider}) < MaxParallel
    /\ StartCallOn(toolsProvider)
    /\ UNCHANGED <<now, instances, lastSettled, toolsProvider, registryCalls, requests, input, output, huVars>>

\* A holder of the registry that asks for an adapter of a typed ProviderId.
GetProviderDirect ==
    /\ \E u \in Users, pid \in DOMAIN providerMap :
          /\ CanConstruct(pid)
          /\ RegistryEffect(u, pid, "direct")
    /\ UNCHANGED <<now, calls, lastSettled, toolsProvider, requests, input, output, huVars>>

\* A holder of an adapter that awaits each capability call before the next.
DirectCall ==
    /\ CanCall
    /\ \E i \in 1..Len(instances) :
          /\ instances[i].owner = "direct"
          /\ \A c \in calls : c.inst # i
          /\ StartCallOn(i)
    /\ UNCHANGED <<now, instances, lastSettled, toolsProvider, registryCalls, requests, input, output, huVars>>

\* auth.api.getAccessToken resolves.
TokenReturn ==
    /\ \E c \in calls, result \in TokenResults :
          /\ c.pc = "token"
          /\ instances' = [instances EXCEPT
                             ![c.inst] = InstallToken(@, result, c.now)]
          /\ stats' = [stats EXCEPT ![c.inst].defaultedAt =
                          IF ~TokenUsable(result) THEN @
                          ELSE IF result.accessTokenExpiresAt = <<>> THEN <<c.now>>
                          ELSE <<>>]
          /\ Advance(c, AfterToken(c, instances[c.inst], result))
    /\ UNCHANGED <<now, toolsProvider, registryCalls, input, output, huVars>>

\* auth.api.getAccessToken rejects.
TokenFail ==
    /\ \E c \in calls, err \in TokenErrors :
          /\ c.pc = "token"
          /\ Advance(c, AfterTokenFailure(c, err))
    /\ UNCHANGED <<now, instances, stats, toolsProvider, registryCalls, input, output, huVars>>

\* The capability method issues its upstream request after ensureInitialized.
IssueUpstream ==
    /\ \E c \in calls :
          /\ c.pc = "ready"
          /\ Advance(c, [c EXCEPT
                !.pc = "upstream",
                !.up = @ + 1,
                !.client = IF instances[c.inst].class = "GoogleCalendarProvider"
                           THEN instances[c.inst].client ELSE @])
    /\ UNCHANGED <<now, instances, stats, toolsProvider, registryCalls, input, output, huVars>>

\* The upstream request resolves.
UpstreamReturn ==
    /\ \E c \in calls :
          /\ c.pc = "upstream"
          /\ Advance(c, Settled(c, "done", NoError))
    /\ UNCHANGED <<now, instances, stats, toolsProvider, registryCalls, input, output, huVars>>

\* The upstream request rejects.
UpstreamFail ==
    /\ \E c \in calls, err \in UpstreamErrors :
          /\ c.pc = "upstream"
          /\ Advance(c, AfterUpstreamFailure(c, err))
    /\ UNCHANGED <<now, instances, stats, toolsProvider, registryCalls, input, output, huVars>>

\* A request arrives and the handler awaits requireAuth.
RestArriveWith(routes, params, authSessions, bodies) ==
    /\ Len(requests) < MaxRequests
    /\ \E route \in routes, param \in params, session \in authSessions, body \in bodies :
          requests' = Append(requests,
              [route |-> route, param |-> param, session |-> session, body |-> body,
               pc |-> "auth", providerId |-> <<>>, registry |-> "not reached",
               instance |-> 0, response |-> <<>>])
    /\ UNCHANGED <<now, instances, stats, calls, lastSettled, toolsProvider, registryCalls, input, output, huVars>>

RestArrive == RestArriveWith(Routes, ProviderParams, BOOLEAN, {NoBody})

\* A request of a signed-in user that names one of the provider ids, to the
\* handler with the inline catch block or to one that uses handleProviderError.
RestArriveSignedIn ==
    RestArriveWith({"GET /api/v1/calendars",
                    "GET /api/v1/calendars/$calendarId/events/$eventId"},
                   {"google", "Outlook", "apple"}, {TRUE}, {NoBody})

\* The handler from its try block: the registry, and the capability call up
\* to its first await.
RestCall(r, req, providerId) ==
    \E u \in Users :
       LET reg == getCalendarProvider(instances, u, providerId[1], "rest")
           i == Len(instances) + 1
           call == BeginCall(reg.provider[1], i, 1, now)
       IN  /\ CanConstruct(providerId[1])
           /\ registryCalls' = registryCalls \cup
                 {[providerId |-> providerId[1], threw |-> reg.threw,
                   error |-> reg.error,
                   instance |-> IF reg.threw THEN 0 ELSE i]}
           /\ IF reg.threw
              THEN /\ requests' = [requests EXCEPT
                         ![r].pc = "responded",
                         ![r].providerId = providerId,
                         ![r].registry = "threw",
                         ![r].response = <<handleProviderError(req.route, reg.error[1])>>]
                   /\ UNCHANGED <<instances, stats, calls>>
              ELSE /\ CanCall
                   /\ instances' = Append(instances, reg.provider[1])
                   /\ stats' = Append(stats,
                         [NoStats EXCEPT !.started = 1,
                                         !.acquisitions = call.acq])
                   /\ calls' = calls \cup {call}
                   /\ requests' = [requests EXCEPT
                         ![r].pc = "call",
                         ![r].providerId = providerId,
                         ![r].registry = "returned",
                         ![r].instance = i]

\* requireAuth resolves; the handler runs up to its next await: provider-id
\* validation, then request.json() in a handler that takes a body, else the
\* registry and the start of the capability call.
RestHandle ==
    \E r \in 1..Len(requests) :
       /\ requests[r].pc = "auth"
       /\ LET req == requests[r]
              providerParam == IF req.param = "" THEN ProviderId.GOOGLE ELSE req.param
              providerId == validateProviderId(providerParam)
          IN  IF ~req.session
              THEN /\ requests' = [requests EXCEPT ![r].pc = "responded",
                                                   ![r].response = <<Unauthorized>>]
                   /\ UNCHANGED <<instances, stats, calls, registryCalls>>
              ELSE IF providerId = <<>>
              THEN /\ requests' = [requests EXCEPT ![r].pc = "responded",
                                                   ![r].response = <<InvalidProvider>>]
                   /\ UNCHANGED <<instances, stats, calls, registryCalls>>
              ELSE IF req.route \in BodyRoutes
              THEN /\ requests' = [requests EXCEPT ![r].pc = "json",
                                                   ![r].providerId = providerId]
                   /\ UNCHANGED <<instances, stats, calls, registryCalls>>
              ELSE RestCall(r, req, providerId)
       /\ UNCHANGED <<now, lastSettled, toolsProvider, input, output, huVars>>

\* Adapters held by the tool layer and by direct holders.
Next ==
    \/ Tick
    \/ CreateCalendarTools
    \/ ToolExecute
    \/ GetProviderDirect
    \/ DirectCall
    \/ TokenReturn
    \/ TokenFail
    \/ IssueUpstream
    \/ UpstreamReturn
    \/ UpstreamFail

Spec == Init /\ [][Next]_vars

\* Adapters built by the REST handlers, one per request and one call each:
\* every call meets an empty cache, so the clock is left where it is.
NextRest ==
    \/ RestArrive
    \/ RestHandle
    \/ TokenReturn
    \/ TokenFail
    \/ IssueUpstream
    \/ UpstreamReturn
    \/ UpstreamFail

SpecRest == Init /\ [][NextRest]_vars

\* The callers that turn a failed capability call into an answer: the REST
\* handlers and the execute callbacks of the tool layer.
NextCallers ==
    \/ RestArriveSignedIn
    \/ RestHandle
    \/ CreateCalendarTools
    \/ ToolExecute
    \/ TokenReturn
    \/ TokenFail
    \/ IssueUpstream
    \/ UpstreamReturn
    \/ UpstreamFail

SpecCallers == Init /\ [][NextCallers]_vars

(***************************************************************************)
(* Strings.  A string the code takes apart (split, replace) is a sequence  *)
(* of one-character strings; Str puts it together again.                   *)
(***************************************************************************)
RECURSIVE Str(_)
Str(chars) == IF chars = <<>> THEN "" ELSE Head(chars) \o Str(Tail(chars))

\* Array.prototype.join
RECURSIVE join(_, _)
join(strs, sep) ==
    IF strs = <<>> THEN ""
    ELSE IF Len(strs) = 1 THEN strs[1]
    ELSE strs[1] \o sep \o join(Tail(strs), sep)

Digits == {"0", "1", "2", "3", "4", "5", "6", "7", "8", "9"}

\* s.replace(/[-:]/g, "")
StripSeparators(chars) == SelectSeq(chars, LAMBDA ch : ch \notin {"-", ":"})

\* s.replace(/-/g, "")
StripDashes(chars) == SelectSeq(chars, LAMBDA ch : ch # "-")

\* s.replace(/\.\d{3}/, ""): the first '.' followed by three digits goes.
StripMillis(chars) ==
    LET hits == {i \in 1..Len(chars) :
                    /\ chars[i] = "."
                    /\ i + 3 <= Len(chars)
                    /\ \A k \in 1..3 : chars[i + k] \in Digits}
    IN  IF hits = {} THEN chars
        ELSE LET i == CHOOSE h \in hits : \A g \in hits : h <= g
             IN  SubSeq(chars, 1, i - 1) \o SubSeq(chars, i + 4, Len(chars))

\* s.split("T")[0]
BeforeT(chars) ==
    LET ts == {i \in 1..Len(chars) : chars[i] = "T"}
    IN  IF ts = {} THEN chars
        ELSE SubSeq(chars, 1, (CHOOSE h \in ts : \A g \in ts : h <= g) - 1)

(***************************************************************************)
(* types.ts: RecurrenceRule.  An optional field is <<>> when absent and    *)
(* <<value>> when present; a RecurrenceEnd carries the field of its type.  *)
(***************************************************************************)
RecurrenceFrequency ==
    [DAILY |-> "daily", WEEKLY |-> "weekly", MONTHLY |-> "monthly", YEARLY |-> "yearly"]

Weekday == [MONDAY |-> "MO", TUESDAY |-> "TU", WEDNESDAY |-> "WE", THURSDAY |-> "TH",
            FRIDAY |-> "FR", SATURDAY |-> "SA", SUNDAY |-> "SU"]

EndCount(n) == [type |-> "count", count |-> n, until |-> <<>>]
EndUntil(chars) == [type |-> "until", count |-> 0, until |-> chars]
EndForever == [type |-> "forever", count |-> 0, until |-> <<>>]

RecurrenceRule(frequency, interval, end, byDay, byMonthDay, byMonth) ==
    [frequency |-> frequency, interval |-> interval, end |-> end,
     byDay |-> byDay, byMonthDay |-> byMonthDay, byMonth |-> byMonth]

\* The until values and event starts of the tests: a date, an instant, an
\* instant with milliseconds.
Date1231 == <<"2", "0", "2", "4", "-", "1", "2", "-", "3", "1">>
Time235959 == <<"T", "2", "3", ":", "5", "9", ":", "5", "9">>
Untils == {Date1231, Date1231 \o Time235959 \o <<"Z">>,
           Date1231 \o Time235959 \o <<".", "0", "0", "0", "Z">>}

Frequencies == {RecurrenceFrequency.DAILY, RecurrenceFrequency.WEEKLY,
                RecurrenceFrequency.MONTHLY, RecurrenceFrequency.YEARLY}
Intervals == {<<>>, <<1>>, <<2>>}
Ends == {<<>>, <<EndForever>>, <<EndCount(10)>>, <<EndCount(20)>>}
        \cup {<<EndUntil(u)>> : u \in Untils}
ByDays == {<<>>, << <<>> >>, << <<Weekday.MONDAY, Weekday.FRIDAY>> >>,
           << <<Weekday.FRIDAY, Weekday.MONDAY>> >>}
ByMonthDays == {<<>>, << <<15>> >>, << <<15, 1>> >>}
ByMonths == {<<>>, << <<7, 1>> >>}

RecurrenceRules ==
    {RecurrenceRule(f, i, e, d, md, m) :
        f \in Frequencies, i \in Intervals, e \in Ends,
        d \in ByDays, md \in ByMonthDays, m \in ByMonths}

(***************************************************************************)
(* google.ts: buildRruleString                                             *)
(***************************************************************************)
rruleFreqMap ==
    (RecurrenceFrequency.DAILY :> "DAILY") @@ (RecurrenceFrequency.WEEKLY :> "WEEKLY")
    @@ (RecurrenceFrequency.MONTHLY :> "MONTHLY") @@ (RecurrenceFrequency.YEARLY :> "YEARLY")

Part(key, value) == [key |-> key, value |-> value]

\* The numbers of a list as strings (what join makes of each element).
NumberStrings(ns) == [k \in 1..Len(ns) |-> ToString(ns[k])]

\* The elements pushed onto `parts`, each `KEY=value`, in the order pushed.
IntervalPart(rule) ==
    IF rule.interval # <<>> /\ rule.interval[1] # 0 /\ rule.interval[1] > 1
    THEN <<Part("INTERVAL", ToString(rule.interval[1]))>> ELSE <<>>

EndPart_DateOnly(rule) ==
    IF rule.end = <<>> THEN <<>>
    ELSE IF rule.end[1].type = "count"
    THEN <<Part("COUNT", ToString(rule.end[1].count))>>
    ELSE IF rule.end[1].type = "until"
    THEN <<Part("UNTIL", Str(StripSeparators(BeforeT(rule.end[1].until))))>>
    ELSE <<>>

EndPart(rule) ==
    IF rule.end = <<>> THEN <<>>
    ELSE IF rule.end[1].type = "count"
    THEN <<Part("COUNT", ToString(rule.end[1].count))>>
    ELSE IF rule.end[1].type = "until"
    THEN <<Part("UNTIL", Str(StripMillis(StripSeparators(rule.end[1].until))))>>
    ELSE <<>>

ListPart(key, list, strs) ==
    IF list # <<>> /\ Len(list[1]) > 0 THEN <<Part(key, join(strs, ","))>> ELSE <<>>

rruleParts_ByDayFirst(rule) ==
    <<Part("FREQ", rruleFreqMap[rule.frequency])>>
    \o ListPart("BYDAY", rule.byDay, IF rule.byDay = <<>> THEN <<>> ELSE rule.byDay[1])
    \o IntervalPart(rule)
    \o EndPart(rule)
    \o ListPart("BYMONTHDAY", rule.byMonthDay,
                IF rule.byMonthDay = <<>> THEN <<>> ELSE NumberStrings(rule.byMonthDay[1]))
    \o ListPart("BYMONTH", rule.byMonth,
                IF rule.byMonth = <<>> THEN <<>> ELSE NumberStrings(rule.byMonth[1]))

rruleParts(rule) ==
    <<Part("FREQ", rruleFreqMap[rule.frequency])>>
    \o IntervalPart(rule)
    \o EndPart(rule)
    \o ListPart("BYDAY", rule.byDay, IF rule.byDay = <<>> THEN <<>> ELSE rule.byDay[1])
    \o ListPart("BYMONTHDAY", rule.byMonthDay,
                IF rule.byMonthDay = <<>> THEN <<>> ELSE NumberStrings(rule.byMonthDay[1]))
    \o ListPart("BYMONTH", rule.byMonth,
                IF rule.byMonth = <<>> THEN <<>> ELSE NumberStrings(rule.byMonth[1]))

buildRruleString(rule) ==
    LET parts == rruleParts(rule)
    IN  "RRULE:" \o join([k \in 1..Len(parts) |-> parts[k].key \o "=" \o parts[k].value], ";")

(***************************************************************************)
(* outlook.ts: buildGraphRecurrence                                        *)
(***************************************************************************)
WEEKDAY_TO_GRAPH_DAY ==
    (Weekday.MONDAY :> "monday") @@ (Weekday.TUESDAY :> "tuesday")
    @@ (Weekday.WEDNESDAY :> "wednesday") @@ (Weekday.THURSDAY :> "thursday")
    @@ (Weekday.FRIDAY :> "friday") @@ (Weekday.SATURDAY :> "saturday")
    @@ (Weekday.SUNDAY :> "sunday")

graphFreqMap ==
    (RecurrenceFrequency.DAILY :> "daily") @@ (RecurrenceFrequency.WEEKLY :> "weekly")
    @@ (RecurrenceFrequency.MONTHLY :> "absoluteMonthly")
    @@ (RecurrenceFrequency.YEARLY :> "absoluteYearly")

\* The range of the recurrence: noEnd unless the rule ends by date or count.
graphRange_UntilAsGiven(rule, startDate) ==
    LET base == [startDate |-> Str(BeforeT(startDate)), type |-> "noEnd",
                 endDate |-> <<>>, numberOfOccurrences |-> <<>>]
    IN  IF rule.end = <<>> THEN base
        ELSE IF rule.end[1].type = "until"
        THEN [base EXCEPT !.type = "endDate",
                          !.endDate = <<Str(rule.end[1].until)>>]
        ELSE IF rule.end[1].type = "count"
        THEN [base EXCEPT !.type = "numbered",
                          !.numberOfOccurrences = <<rule.end[1].count>>]
        ELSE base

graphRange(rule, startDate) ==
    LET base == [startDate |-> Str(BeforeT(startDate)), type |-> "noEnd",
                 endDate |-> <<>>, numberOfOccurrences |-> <<>>]
    IN  IF rule.end = <<>> THEN base
        ELSE IF rule.end[1].type = "until"
        THEN [base EXCEPT !.type = "endDate",
                          !.endDate = <<Str(BeforeT(rule.end[1].until))>>]
        ELSE IF rule.end[1].type = "count"
        THEN [base EXCEPT !.type = "numbered",
                          !.numberOfOccurrences = <<rule.end[1].count>>]
        ELSE base

graphPattern(rule) ==
    [type |-> graphFreqMap[rule.frequency],
     interval |-> IF rule.interval = <<>> THEN 1 ELSE rule.interval[1],
     daysOfWeek |-> IF rule.byDay # <<>> /\ Len(rule.byDay[1]) > 0
                    THEN <<[k \in 1..Len(rule.byDay[1]) |->
                              WEEKDAY_TO_GRAPH_DAY[rule.byDay[1][k]]]>>
                    ELSE <<>>,
     dayOfMonth |-> IF rule.byMonthDay # <<>> /\ Len(rule.byMonthDay[1]) > 0
                    THEN <<rule.byMonthDay[1][1]>> ELSE <<>>,
     month |-> IF rule.byMonth # <<>> /\ Len(rule.byMonth[1]) > 0
               THEN <<rule.byMonth[1][1]>> ELSE <<>>]

buildGraphRecurrence(rule, startDate) ==
    [pattern |-> graphPattern(rule), range |-> graphRange(rule, startDate)]

(***************************************************************************)
(* The recurrence codec applied on its own                                 *)
(***************************************************************************)
Date0115 == <<"2", "0", "2", "4", "-", "0", "1", "-", "1", "5">>
StartDates == {Date0115,
               Date0115 \o <<"T", "1", "0", ":", "0", "0", ":", "0", "0", "Z">>}

NoProgram ==
    /\ now = Now0
    /\ instances = <<>>
    /\ stats = <<>>
    /\ calls = {}
    /\ lastSettled = <<>>
    /\ toolsProvider = 0
    /\ registryCalls = {}
    /\ requests = <<>>
    /\ NoVoiceAgent

InitRecurrence ==
    /\ NoProgram
    /\ input \in {[rule |-> r, startDate |-> d] : r \in RecurrenceRules, d \in StartDates}
    /\ output = <<>>

Returns(fn, value) ==
    /\ output = <<>>
    /\ output' = <<[fn |-> fn, value |-> value]>>
    /\ UNCHANGED <<now, instances, stats, calls, lastSettled, toolsProvider,
                   registryCalls, requests, input, huVars>>

ApplyBuildRruleString ==
    Returns("buildRruleString",
            [parts |-> rruleParts(input.rule), string |-> buildRruleString(input.rule)])

ApplyBuildGraphRecurrence ==
    Returns("buildGraphRecurrence", buildGraphRecurrence(input.rule, input.startDate))

NextRecurrence ==
    \/ ApplyBuildRruleString
    \/ ApplyBuildGraphRecurrence

SpecRecurrence == InitRecurrence /\ [][NextRecurrence]_vars

(***************************************************************************)
(* Write direction: the payload createEvent and updateEvent send upstream. *)
(* A field of the payload is <<>> when the code leaves it undefined or     *)
(* does not set it, and <<value>> otherwise.                               *)
(***************************************************************************)
Visibility ==
    [DEFAULT |-> "default", PUBLIC |-> "public", PRIVATE |-> "private",
     CONFIDENTIAL |-> "confidential"]

Timed(dateTime, timeZone) ==
    [kind |-> "timed", dateTime |-> dateTime, timeZone |-> timeZone, date |-> <<>>]

AllDay(date) ==
    [kind |-> "allDay", dateTime |-> <<>>, timeZone |-> <<>>, date |-> date]

DefaultReminders == [type |-> "default", overrides |-> <<>>]

CustomReminders(overrides) == [type |-> "custom", overrides |-> overrides]

EventParams(summary, description, location, start, end, attendees, visibility, reminders, recurrence) ==
    [summary |-> summary, description |-> description, location |-> location,
     start |-> start, end |-> end, attendees |-> attendees,
     visibility |-> visibility, reminders |-> reminders, recurrence |-> recurrence]

toGoogleDateTime(dt) ==
    IF dt.kind = "timed"
    THEN [dateTime |-> <<Str(dt.dateTime)>>, date |-> <<>>, timeZone |-> dt.timeZone]
    ELSE [dateTime |-> <<>>, date |-> <<Str(dt.date)>>, timeZone |-> <<>>]

toGoogleReminders(reminders) ==
    IF reminders.type = "default"
    THEN [useDefault |-> TRUE, overrides |-> <<>>]
    ELSE [useDefault |-> FALSE, overrides |-> <<reminders.overrides>>]

toGraphDateTime(dt) ==
    IF dt.kind = "timed"
    THEN [dateTime |-> Str(dt.dateTime),
          timeZone |-> IF dt.timeZone = <<>> THEN "UTC" ELSE dt.timeZone[1]]
    ELSE [dateTime |-> Str(dt.date), timeZone |-> "UTC"]

toGraphReminders(reminders) ==
    IF reminders.type = "default"
    THEN [isReminderOn |-> FALSE, reminderMinutesBeforeStart |-> <<>>]
    ELSE IF Len(reminders.overrides) > 0
    THEN [isReminderOn |-> TRUE,
          reminderMinutesBeforeStart |-> <<reminders.overrides[1].minutes>>]
    ELSE [isReminderOn |-> FALSE, reminderMinutesBeforeStart |-> <<>>]

googleAttendees(attendees) ==
    [k \in 1..Len(attendees) |->
        [email |-> attendees[k].email, displayName |-> attendees[k].displayName,
         optional |-> attendees[k].optional]]

graphAttendees(attendees) ==
    [k \in 1..Len(attendees) |->
        [emailAddress |-> [address |-> attendees[k].email,
                           name |-> attendees[k].displayName],
         type |-> IF attendees[k].optional = <<TRUE>> THEN "optional" ELSE "required"]]

graphSensitivity_PrivateOnly(visibility) ==
    IF visibility = <<Visibility.PRIVATE>> \/ visibility = <<Visibility.CONFIDENTIAL>>
    THEN "private"
    ELSE "normal"

graphSensitivity(visibility) ==
    IF visibility = <<Visibility.PRIVATE>> THEN "private"
    ELSE IF visibility = <<Visibility.CONFIDENTIAL>> THEN "confidential"
    ELSE "normal"

\* google.ts updateEvent: the requestBody of events.patch.
googleUpdateBody(event) ==
    [summary |-> event.summary,
     description |-> event.description,
     location |-> event.location,
     start |-> IF event.start # <<>> THEN <<toGoogleDateTime(event.start[1])>> ELSE <<>>,
     end |-> IF event.end # <<>> THEN <<toGoogleDateTime(event.end[1])>> ELSE <<>>,
     attendees |-> IF event.attendees # <<>>
                   THEN <<googleAttendees(event.attendees[1])>> ELSE <<>>,
     visibility |-> event.visibility,
     reminders |-> IF event.reminders # <<>>
                   THEN <<toGoogleReminders(event.reminders[1])>> ELSE <<>>,
     recurrence |-> IF event.recurrence # <<>>
                    THEN << <<buildRruleString(event.recurrence[1])>> >> ELSE <<>>]

\* The recurrence createEvent and updateEvent of outlook.ts put in the
\* payload: only for a rule given together with a timed start.
graphRecurrenceField(event) ==
    IF event.recurrence # <<>> /\ event.start # <<>> /\ event.start[1].kind = "timed"
    THEN <<buildGraphRecurrence(event.recurrence[1], event.start[1].dateTime)>>
    ELSE <<>>

graphReminderFields(event) ==
    IF event.reminders # <<>>
    THEN [isReminderOn |-> <<toGraphReminders(event.reminders[1]).isReminderOn>>,
          reminderMinutesBeforeStart |->
              toGraphReminders(event.reminders[1]).reminderMinutesBeforeStart]
    ELSE [isReminderOn |-> <<>>, reminderMinutesBeforeStart |-> <<>>]

\* outlook.ts updateEvent: the graphEvent given to patch.
outlookUpdateBody_SensitivityAlways(event) ==
    [subject |-> event.summary,
     body |-> IF event.description # <<>>
              THEN <<[contentType |-> "text", content |-> event.description[1]]>> ELSE <<>>,
     location |-> IF event.location # <<>>
                  THEN <<[displayName |-> event.location[1]]>> ELSE <<>>,
     start |-> IF event.start # <<>> THEN <<toGraphDateTime(event.start[1])>> ELSE <<>>,
     isAllDay |-> IF event.start # <<>> THEN <<event.start[1].kind = "allDay">> ELSE <<>>,
     end |-> IF event.end # <<>> THEN <<toGraphDateTime(event.end[1])>> ELSE <<>>,
     attendees |-> IF event.attendees # <<>>
                   THEN <<graphAttendees(event.attendees[1])>> ELSE <<>>,
     sensitivity |-> <<graphSensitivity(event.visibility)>>,
     isReminderOn |-> graphReminderFields(event).isReminderOn,
     reminderMinutesBeforeStart |-> graphReminderFields(event).reminderMinutesBeforeStart,
     recurrence |-> graphRecurrenceField(event)]

outlookUpdateBody(event) ==
    [subject |-> event.summary,
     body |-> IF event.description # <<>>
              THEN <<[contentType |-> "text", content |-> event.description[1]]>> ELSE <<>>,
     location |-> IF event.location # <<>>
                  THEN <<[displayName |-> event.location[1]]>> ELSE <<>>,
     start |-> IF event.start # <<>> THEN <<toGraphDateTime(event.start[1])>> ELSE <<>>,
     isAllDay |-> IF event.start # <<>> THEN <<event.start[1].kind = "allDay">> ELSE <<>>,
     end |-> IF event.end # <<>> THEN <<toGraphDateTime(event.end[1])>> ELSE <<>>,
     attendees |-> IF event.attendees # <<>>
                   THEN <<graphAttendees(event.attendees[1])>> ELSE <<>>,
     sensitivity |-> IF event.visibility # <<>>
                     THEN <<graphSensitivity(event.visibility)>> ELSE <<>>,
     isReminderOn |-> graphReminderFields(event).isReminderOn,
     reminderMinutesBeforeStart |-> graphReminderFields(event).reminderMinutesBeforeStart,
     recurrence |-> graphRecurrenceField(event)]

\* outlook.ts createEvent: the graphEvent given to post (summary, start and
\* end are required; an empty description or location is falsy).
outlookCreateBody(event) ==
    [subject |-> event.summary,
     body |-> IF event.description # <<>> /\ event.description[1] # ""
              THEN <<[contentType |-> "text", content |-> event.description[1]]>> ELSE <<>>,
     location |-> IF event.location # <<>> /\ event.location[1] # ""
                  THEN <<[displayName |-> event.location[1]]>> ELSE <<>>,
     start |-> <<toGraphDateTime(event.start[1])>>,
     isAllDay |-> <<event.start[1].kind = "allDay">>,
     end |-> <<toGraphDateTime(event.end[1])>>,
     attendees |-> IF event.attendees # <<>>
                   THEN <<graphAttendees(event.attendees[1])>> ELSE <<>>,
     sensitivity |-> <<graphSensitivity(event.visibility)>>,
     isReminderOn |-> graphReminderFields(event).isReminderOn,
     reminderMinutesBeforeStart |-> graphReminderFields(event).reminderMinutesBeforeStart,
     recurrence |-> graphRecurrenceField(event)]

(***************************************************************************)
(* The write direction applied on its own                                  *)
(***************************************************************************)
TimedStart == Timed(Date0115 \o <<"T", "1", "0", ":", "0", "0", ":", "0", "0", "Z">>, <<"UTC">>)
TimedEnd == Timed(Date0115 \o <<"T", "1", "1", ":", "0", "0", ":", "0", "0", "Z">>, <<"UTC">>)
AllDayStart == AllDay(Date0115)
AllDayEnd == AllDay(<<"2", "0", "2", "4", "-", "0", "1", "-", "1", "6">>)

WeeklyTenTimes ==
    RecurrenceRule(RecurrenceFrequency.WEEKLY, <<>>, <<EndCount(10)>>, <<>>, <<>>, <<>>)

SomeAttendees ==
    <<[email |-> "new@example.com", displayName |-> <<"New Person">>, optional |-> <<TRUE>>]>>

WriteParams ==
    {EventParams(s, d, l, st, en, a, v, r, rec) :
        s \in {<<>>, <<"X">>},
        d \in {<<>>, <<"Notes">>},
        l \in {<<>>, <<"Room 1">>},
        st \in {<<>>, <<TimedStart>>, <<AllDayStart>>},
        en \in {<<>>, <<TimedEnd>>, <<AllDayEnd>>},
        a \in {<<>>, <<SomeAttendees>>},
        v \in {<<>>, <<Visibility.PRIVATE>>, <<Visibility.PUBLIC>>},
        r \in {<<>>, <<DefaultReminders>>,
               <<CustomReminders(<<[method |-> "popup", minutes |-> 10]>>)>>},
        rec \in {<<>>, <<WeeklyTenTimes>>}}

InitWrite ==
    /\ NoProgram
    /\ input \in WriteParams
    /\ output = <<>>

ApplyGoogleUpdateEvent ==
    Returns("google.updateEvent", googleUpdateBody(input))

ApplyOutlookUpdateEvent ==
    Returns("outlook.updateEvent", outlookUpdateBody(input))

\* CreateEventParams requires summary, start and end.
ApplyOutlookCreateEvent ==
    /\ input.summary # <<>> /\ input.start # <<>> /\ input.end # <<>>
    /\ Returns("outlook.createEvent", outlookCreateBody(input))

NextWrite ==
    \/ ApplyGoogleUpdateEvent
    \/ ApplyOutlookUpdateEvent
    \/ ApplyOutlookCreateEvent

SpecWrite == InitWrite /\ [][NextWrite]_vars

(***************************************************************************)
(* Read direction, outlook.ts: parseGraphRecurrence and mapEvent.  A field *)
(* of an upstream item is <<>> when it is missing and <<value>> otherwise. *)
(***************************************************************************)
EventStatus ==
    [CONFIRMED |-> "confirmed", TENTATIVE |-> "tentative", CANCELLED |-> "cancelled"]

GRAPH_DAY_TO_WEEKDAY ==
    ("monday" :> Weekday.MONDAY) @@ ("tuesday" :> Weekday.TUESDAY)
    @@ ("wednesday" :> Weekday.WEDNESDAY) @@ ("thursday" :> Weekday.THURSDAY)
    @@ ("friday" :> Weekday.FRIDAY) @@ ("saturday" :> Weekday.SATURDAY)
    @@ ("sunday" :> Weekday.SUNDAY)

GRAPH_RESPONSE_STATUS_MAP ==
    ("none" :> "needsAction") @@ ("notResponded" :> "needsAction")
    @@ ("organizer" :> "accepted") @@ ("tentativelyAccepted" :> "tentative")
    @@ ("accepted" :> "accepted") @@ ("declined" :> "declined")

\* record[key] ?? fallback, for a lookup table and a key that may be missing
\* from it.
Lookup(table, key, fallback) == IF key \in DOMAIN table THEN table[key] ELSE fallback

parseFreqMap ==
    ("daily" :> "DAILY") @@ ("weekly" :> "WEEKLY")
    @@ ("absoluteMonthly" :> "MONTHLY") @@ ("relativeMonthly" :> "MONTHLY")
    @@ ("absoluteYearly" :> "YEARLY") @@ ("relativeYearly" :> "YEARLY")

\* daysOfWeek.map(d => GRAPH_DAY_TO_WEEKDAY[d.toLowerCase()]).filter(Boolean)
graphByDay(daysOfWeek) ==
    LET known == SelectSeq(daysOfWeek, LAMBDA d : toLowerCase(d) \in DOMAIN GRAPH_DAY_TO_WEEKDAY)
    IN  [k \in 1..Len(known) |-> GRAPH_DAY_TO_WEEKDAY[toLowerCase(known[k])]]

\* The parts pushed after FREQ, in the order pushed.
parsedParts(pattern, range, freq) ==
    <<Part("FREQ", freq)>>
    \o (IF pattern.interval # <<>> /\ pattern.interval[1] > 1
        THEN <<Part("INTERVAL", ToString(pattern.interval[1]))>> ELSE <<>>)
    \o (IF pattern.daysOfWeek # <<>> /\ Len(graphByDay(pattern.daysOfWeek[1])) > 0
        THEN <<Part("BYDAY", join(graphByDay(pattern.daysOfWeek[1]), ","))>> ELSE <<>>)
    \o (IF pattern.dayOfMonth # <<>> /\ pattern.dayOfMonth[1] # 0
        THEN <<Part("BYMONTHDAY", ToString(pattern.dayOfMonth[1]))>> ELSE <<>>)
    \o (IF pattern.month # <<>> /\ pattern.month[1] # 0
        THEN <<Part("BYMONTH", ToString(pattern.month[1]))>> ELSE <<>>)
    \o (IF range.type = <<"endDate">> /\ range.endDate # <<>> /\ range.endDate[1] # <<>>
        THEN <<Part("UNTIL", Str(StripDashes(range.endDate[1])) \o "T235959Z")>>
        ELSE IF range.type = <<"numbered">> /\ range.numberOfOccurrences # <<>>
                /\ range.numberOfOccurrences[1] # 0
        THEN <<Part("COUNT", ToString(range.numberOfOccurrences[1]))>>
        ELSE <<>>)

\* The outcome of a function that may throw: the error, or the value.
Value(v) == [threw |-> FALSE, value |-> v]
Thrown(message) == [threw |-> TRUE, value |-> message]

\* parseGraphRecurrence: undefined (<<>>) without pattern or range or for a
\* pattern type outside freqMap, else the one RRULE string.
parseGraphRecurrence_Strict(recurrence) ==
    IF recurrence = <<>> THEN Value(<<>>)
    ELSE IF recurrence[1].pattern = <<>> \/ recurrence[1].range = <<>>
    THEN Thrown("Invalid recurrence")
    ELSE LET pattern == recurrence[1].pattern[1]
             range == recurrence[1].range[1]
             type == IF pattern.type = <<>> THEN "" ELSE pattern.type[1]
         IN  IF type \notin DOMAIN parseFreqMap THEN Thrown("Unknown frequency")
             ELSE LET parts == parsedParts(pattern, range, parseFreqMap[type])
                  IN  Value(<< <<"RRULE:" \o join([k \in 1..Len(parts) |->
                                   parts[k].key \o "=" \o parts[k].value], ";")>> >>)

parseGraphRecurrence(recurrence) ==
    IF recurrence = <<>> THEN Value(<<>>)
    ELSE IF recurrence[1].pattern = <<>> \/ recurrence[1].range = <<>>
    THEN Value(<<>>)
    ELSE LET pattern == recurrence[1].pattern[1]
             range == recurrence[1].range[1]
             type == IF pattern.type = <<>> THEN "" ELSE pattern.type[1]
         IN  IF type \notin DOMAIN parseFreqMap THEN Value(<<>>)
             ELSE LET parts == parsedParts(pattern, range, parseFreqMap[type])
                  IN  Value(<< <<"RRULE:" \o join([k \in 1..Len(parts) |->
                                   parts[k].key \o "=" \o parts[k].value], ";")>> >>)

\* outlook.ts mapEventDateTime
graphMapEventDateTime_KeepTime(dt, isAllDay) ==
    IF isAllDay = <<TRUE>> /\ dt # <<>> /\ dt[1].dateTime # <<>> /\ dt[1].dateTime[1] # <<>>
    THEN AllDay(dt[1].dateTime[1])
    ELSE IF dt # <<>> /\ dt[1].dateTime # <<>> /\ dt[1].dateTime[1] # <<>>
    THEN Timed(dt[1].dateTime[1], dt[1].timeZone)
    ELSE AllDay(<<>>)

graphMapEventDateTime(dt, isAllDay) ==
    IF isAllDay = <<TRUE>> /\ dt # <<>> /\ dt[1].dateTime # <<>> /\ dt[1].dateTime[1] # <<>>
    THEN AllDay(BeforeT(dt[1].dateTime[1]))
    ELSE IF dt # <<>> /\ dt[1].dateTime # <<>> /\ dt[1].dateTime[1] # <<>>
    THEN Timed(dt[1].dateTime[1], dt[1].timeZone)
    ELSE AllDay(<<>>)

\* outlook.ts mapReminders
graphMapReminders(isReminderOn, reminderMinutes) ==
    IF isReminderOn = <<TRUE>> /\ reminderMinutes # <<>>
    THEN CustomReminders(<<[method |-> "popup", minutes |-> reminderMinutes[1]]>>)
    ELSE DefaultReminders

graphStatusMap ==
    ("free" :> EventStatus.CONFIRMED) @@ ("tentative" :> EventStatus.TENTATIVE)
    @@ ("busy" :> EventStatus.CONFIRMED) @@ ("oof" :> EventStatus.CONFIRMED)
    @@ ("workingElsewhere" :> EventStatus.CONFIRMED) @@ ("unknown" :> EventStatus.CONFIRMED)

graphVisibilityMap ==
    ("normal" :> Visibility.DEFAULT) @@ ("personal" :> Visibility.PRIVATE)
    @@ ("private" :> Visibility.PRIVATE) @@ ("confidential" :> Visibility.CONFIDENTIAL)

\* x || fallback for a string that may be missing or empty.
OrElse(x, fallback) == IF x = <<>> \/ x[1] = "" THEN fallback ELSE x[1]

\* The status of a mapped Graph event.
graphStatus_ShowAsFirst(item) ==
    IF item.showAs # <<>> /\ item.showAs[1] \in DOMAIN graphStatusMap
    THEN graphStatusMap[item.showAs[1]]
    ELSE IF item.isCancelled = <<TRUE>> THEN EventStatus.CANCELLED
    ELSE EventStatus.CONFIRMED

graphStatus(item) ==
    IF item.isCancelled = <<TRUE>> THEN EventStatus.CANCELLED
    ELSE Lookup(graphStatusMap, OrElse(item.showAs, ""), EventStatus.CONFIRMED)

graphMapAttendees(attendees) ==
    [k \in 1..Len(attendees) |->
        [email |-> OrElse(attendees[k].address, ""),
         displayName |-> attendees[k].name,
         responseStatus |-> <<Lookup(GRAPH_RESPONSE_STATUS_MAP,
                                     OrElse(attendees[k].response, "none"), "needsAction")>>,
         optional |-> <<attendees[k].type = <<"optional">> >>,
         organizer |-> <<FALSE>>,
         self |-> <<FALSE>>]]

\* outlook.ts mapEvent; the error parseGraphRecurrence throws, if it does,
\* is the error of mapEvent.
graphMapEvent(item, calendarId) ==
    LET recurrence == parseGraphRecurrence(item.recurrence)
    IN  IF recurrence.threw THEN recurrence
        ELSE Value(
          [id |-> item.id[1],
           calendarId |-> calendarId,
           summary |-> IF item.subject = <<>> THEN "Untitled" ELSE item.subject[1],
           description |-> IF item.bodyPreview # <<>> THEN item.bodyPreview
                           ELSE item.bodyContent,
           location |-> item.locationName,
           start |-> graphMapEventDateTime(item.start, item.isAllDay),
           end |-> graphMapEventDateTime(item.end, item.isAllDay),
           status |-> graphStatus(item),
           attendees |-> IF item.attendees = <<>> THEN <<>>
                         ELSE <<graphMapAttendees(item.attendees[1])>>,
           organizer |-> IF item.organizer = <<>> THEN <<>>
                         ELSE <<[email |-> OrElse(item.organizer[1].address, ""),
                                 displayName |-> item.organizer[1].name,
                                 self |-> item.isOrganizer]>>,
           created |-> item.createdDateTime,
           updated |-> item.lastModifiedDateTime,
           htmlLink |-> item.webLink,
           recurringEventId |-> IF item.seriesMasterId # <<>> /\ item.seriesMasterId[1] # ""
                                THEN item.seriesMasterId ELSE <<>>,
           visibility |-> <<Lookup(graphVisibilityMap, OrElse(item.sensitivity, "normal"),
                                   Visibility.DEFAULT)>>,
           reminders |-> <<graphMapReminders(item.isReminderOn,
                                             item.reminderMinutesBeforeStart)>>,
           recurrence |-> recurrence.value])

(***************************************************************************)
(* Read direction, google.ts: mapReminders and mapEvent                    *)
(***************************************************************************)
googleMapEventDateTime(start) ==
    IF start # <<>> /\ start[1].dateTime # <<>> /\ start[1].dateTime[1] # <<>>
    THEN Timed(start[1].dateTime[1], start[1].timeZone)
    ELSE AllDay(IF start # <<>> /\ start[1].date # <<>> THEN start[1].date[1] ELSE <<>>)

googleOverrides(overrides) ==
    [k \in 1..Len(overrides) |->
        [method |-> overrides[k].method, minutes |-> overrides[k].minutes]]

\* mapReminders: undefined (<<>>) when the item has no reminders.
googleMapReminders_EmptyCustom(reminders) ==
    IF reminders = <<>> THEN <<>>
    ELSE IF reminders[1].useDefault = <<TRUE>> THEN <<DefaultReminders>>
    ELSE IF reminders[1].overrides # <<>>
    THEN <<CustomReminders(googleOverrides(reminders[1].overrides[1]))>>
    ELSE <<DefaultReminders>>

googleMapReminders(reminders) ==
    IF reminders = <<>> THEN <<>>
    ELSE IF reminders[1].useDefault = <<TRUE>> THEN <<DefaultReminders>>
    ELSE IF reminders[1].overrides # <<>> /\ Len(reminders[1].overrides[1]) > 0
    THEN <<CustomReminders(googleOverrides(reminders[1].overrides[1]))>>
    ELSE <<DefaultReminders>>

googleMapAttendees(attendees) ==
    [k \in 1..Len(attendees) |->
        [email |-> attendees[k].email,
         displayName |-> attendees[k].displayName,
         responseStatus |-> attendees[k].responseStatus,
         optional |-> attendees[k].optional,
         organizer |-> attendees[k].organizer,
         self |-> attendees[k].self]]

\* mapEvent: status and visibility are the upstream values when there are
\* any (the `as` casts do nothing at run time).
googleMapEvent(item, calendarId) ==
    Value(
      [id |-> item.id[1],
       calendarId |-> calendarId,
       summary |-> IF item.summary = <<>> THEN "Untitled" ELSE item.summary[1],
       description |-> item.description,
       location |-> item.location,
       start |-> googleMapEventDateTime(item.start),
       end |-> googleMapEventDateTime(item.end),
       status |-> IF item.status = <<>> THEN EventStatus.CONFIRMED ELSE item.status[1],
       attendees |-> IF item.attendees = <<>> THEN <<>>
                     ELSE <<googleMapAttendees(item.attendees[1])>>,
       organizer |-> IF item.organizer = <<>> THEN <<>>
                     ELSE <<[email |-> item.organizer[1].email,
                             displayName |-> item.organizer[1].displayName,
                             self |-> item.organizer[1].self]>>,
       created |-> item.created,
       updated |-> item.updated,
       htmlLink |-> item.htmlLink,
       recurringEventId |-> IF item.recurringEventId # <<>> /\ item.recurringEventId[1] # ""
                            THEN item.recurringEventId ELSE <<>>,
       visibility |-> IF item.visibility = <<>> THEN <<Visibility.DEFAULT>>
                      ELSE item.visibility,
       reminders |-> googleMapReminders(item.reminders),
       recurrence |-> item.recurrence])

(***************************************************************************)
(* The read direction applied on its own                                   *)
(***************************************************************************)
GraphDateTime(chars) == <<[dateTime |-> <<chars>>, timeZone |-> <<"UTC">>]>>

GraphPattern(type) ==
    [type |-> type, interval |-> <<2>>, daysOfWeek |-> << <<"Monday", "friday", "someday">> >>,
     dayOfMonth |-> <<>>, month |-> <<>>]

GraphRange == [type |-> <<"endDate">>, endDate |-> <<Date1231>>,
               numberOfOccurrences |-> <<>>, startDate |-> <<Date0115>>]

GraphRecurrences ==
    {<<>>,
     <<[pattern |-> <<>>, range |-> <<GraphRange>>]>>,
     <<[pattern |-> <<GraphPattern(<<"weekly">>)>>, range |-> <<>>]>>,
     <<[pattern |-> <<GraphPattern(<<"hourly">>)>>, range |-> <<GraphRange>>]>>,
     <<[pattern |-> <<GraphPattern(<<>>)>>, range |-> <<GraphRange>>]>>,
     <<[pattern |-> <<GraphPattern(<<"weekly">>)>>, range |-> <<GraphRange>>]>>}

GraphAttendee(response) ==
    [address |-> <<"a@example.com">>, name |-> <<"A">>, response |-> response,
     type |-> <<"required">>]

GraphItems ==
    {[id |-> <<"event-1">>, subject |-> subject, bodyPreview |-> <<>>,
      bodyContent |-> <<"Notes">>, locationName |-> <<"Room 1">>,
      start |-> GraphDateTime(Date0115 \o <<"T", "1", "0", ":", "0", "0", ":", "0", "0">>),
      end |-> GraphDateTime(Date0115 \o <<"T", "1", "1", ":", "0", "0", ":", "0", "0">>),
      isAllDay |-> isAllDay, isCancelled |-> isCancelled, showAs |-> showAs,
      attendees |-> attendees,
      organizer |-> <<[address |-> <<"o@example.com">>, name |-> <<>>]>>,
      isOrganizer |-> <<FALSE>>, createdDateTime |-> <<>>, lastModifiedDateTime |-> <<>>,
      webLink |-> <<>>, seriesMasterId |-> <<>>, sensitivity |-> sensitivity,
      isReminderOn |-> isReminderOn, reminderMinutesBeforeStart |-> minutes,
      recurrence |-> recurrence] :
        subject \in {<<>>, <<"Meeting">>},
        isAllDay \in {<<>>, <<TRUE>>},
        isCancelled \in {<<>>, <<FALSE>>, <<TRUE>>},
        showAs \in {<<>>, <<"tentative">>, <<"busy">>, <<"somethingNew">>},
        attendees \in {<<>>, << <<GraphAttendee(<<"tentativelyAccepted">>),
                                  GraphAttendee(<<"maybe">>)>> >>,
                       << <<GraphAttendee(<<>>)>> >>},
        sensitivity \in {<<>>, <<"personal">>, <<"confidential">>, <<"topSecret">>},
        isReminderOn \in {<<>>, <<TRUE>>, <<FALSE>>},
        minutes \in {<<>>, <<15>>},
        recurrence \in GraphRecurrences}

GoogleAttendee(responseStatus) ==
    [email |-> "a@example.com", displayName |-> <<"A">>, responseStatus |-> responseStatus,
     optional |-> <<>>, organizer |-> <<>>, self |-> <<>>]

GoogleReminders ==
    {<<>>,
     <<[useDefault |-> <<TRUE>>, overrides |-> <<>>]>>,
     <<[useDefault |-> <<FALSE>>, overrides |-> <<>>]>>,
     <<[useDefault |-> <<FALSE>>, overrides |-> << <<>> >>]>>,
     <<[useDefault |-> <<>>, overrides |-> << <<>> >>]>>,
     <<[useDefault |-> <<FALSE>>,
        overrides |-> << <<[method |-> "email", minutes |-> 30],
                           [method |-> "popup", minutes |-> 10]>> >>]>>}

GoogleItems ==
    {[id |-> <<"event-1">>, summary |-> summary, description |-> <<>>, location |-> <<>>,
      start |-> start,
      end |-> start,
      status |-> status, attendees |-> attendees, organizer |-> <<>>,
      created |-> <<>>, updated |-> <<>>, htmlLink |-> <<>>, recurringEventId |-> <<>>,
      visibility |-> visibility, reminders |-> reminders, recurrence |-> recurrence] :
        summary \in {<<>>, <<"Meeting">>},
        start \in {<<[dateTime |-> <<TimedStart.dateTime>>, date |-> <<>>, timeZone |-> <<>>]>>,
                   <<[dateTime |-> <<>>, date |-> <<Date0115>>, timeZone |-> <<>>]>>},
        status \in {<<>>, <<"tentative">>, <<"cancelled">>, <<"postponed">>},
        attendees \in {<<>>, << <<GoogleAttendee(<<"accepted">>),
                                  GoogleAttendee(<<"maybe">>)>> >>,
                       << <<GoogleAttendee(<<>>)>> >>},
        visibility \in {<<>>, <<"private">>, <<"secret">>},
        reminders \in GoogleReminders,
        recurrence \in {<<>>, << <<"RRULE:FREQ=WEEKLY;COUNT=10">> >>}}

InitRead ==
    /\ NoProgram
    /\ input \in {[api |-> "graph", item |-> i] : i \in GraphItems}
                 \cup {[api |-> "google", item |-> i] : i \in GoogleItems}
    /\ output = <<>>

\* An upstream response arrives and the adapter maps it.
ApplyGraphMapEvent ==
    /\ input.api = "graph"
    /\ Returns("outlook.mapEvent", graphMapEvent(input.item, "primary"))

ApplyGoogleMapEvent ==
    /\ input.api = "google"
    /\ Returns("google.mapEvent", googleMapEvent(input.item, "primary"))

NextRead ==
    \/ ApplyGraphMapEvent
    \/ ApplyGoogleMapEvent

SpecRead == InitRead /\ [][NextRead]_vars

(***************************************************************************)
(* mapEventDateTime on its own: the start/end objects the two upstream     *)
(* APIs send.  Google sends dateTime (an RFC 3339 date-time) for a timed   *)
(* event and date for an all-day one; Graph sends dateTime in every case   *)
(* and marks the all-day event with isAllDay.                              *)
(***************************************************************************)
OffsetDateTime ==
    Date0115 \o <<"T", "1", "0", ":", "0", "0", ":", "0", "0", "+", "0", "1", ":", "0", "0">>

MidnightDateTime ==
    Date0115 \o <<"T", "0", "0", ":", "0", "0", ":", "0", "0", ".", "0", "0", "0", "0", "0", "0", "0">>

UpstreamDateTimes == {<<>>, << <<>> >>, <<OffsetDateTime>>, <<MidnightDateTime>>}

GoogleDateTimes ==
    {<<>>} \cup {<<[dateTime |-> dt, date |-> d, timeZone |-> tz]>> :
                    dt \in UpstreamDateTimes,
                    d \in {<<>>, <<Date0115>>, <<Date1231>>},
                    tz \in {<<>>, <<"UTC">>, <<"Europe/Paris">>}}

GraphDateTimes ==
    {<<>>} \cup {<<[dateTime |-> dt, timeZone |-> tz]>> :
                    dt \in UpstreamDateTimes, tz \in {<<>>, <<"UTC">>, <<"Europe/Paris">>}}

InitDateTime ==
    /\ NoProgram
    /\ input \in {[api |-> "google", dt |-> dt, isAllDay |-> <<>>] : dt \in GoogleDateTimes}
                 \cup {[api |-> "graph", dt |-> dt, isAllDay |-> a] :
                          dt \in GraphDateTimes, a \in {<<>>, <<FALSE>>, <<TRUE>>}}
    /\ output = <<>>

ApplyGoogleMapEventDateTime ==
    /\ input.api = "google"
    /\ Returns("google.mapEventDateTime", googleMapEventDateTime(input.dt))

ApplyGraphMapEventDateTime ==
    /\ input.api = "graph"
    /\ Returns("outlook.mapEventDateTime", graphMapEventDateTime(input.dt, input.isAllDay))

NextDateTime ==
    \/ ApplyGoogleMapEventDateTime
    \/ ApplyGraphMapEventDateTime

SpecDateTime == InitDateTime /\ [][NextDateTime]_vars

(***************************************************************************)
(* Visibility through the Outlook adapter and back: createEvent and        *)
(* updateEvent send a sensitivity, Graph answers with the event it stored, *)
(* and mapEvent maps the answer (outlook.ts: return this.mapEvent(response,*)
(* calendarId)).                                                           *)
(***************************************************************************)
VisibilityParams ==
    {EventParams(<<"X">>, d, l, <<TimedStart>>, <<TimedEnd>>, <<>>, v, <<>>, <<>>) :
        d \in {<<>>, <<"">>, <<"Notes">>},
        l \in {<<>>, <<"">>, <<"Room 1">>},
        v \in {<<>>} \cup {<<Visibility[k]>> : k \in DOMAIN Visibility}}

\* The event Graph answers with after storing the body it was sent.
GraphResponse(body) ==
    [id |-> <<"event">>, subject |-> body.subject, bodyPreview |-> <<>>,
     bodyContent |-> IF body.body = <<>> THEN <<>> ELSE <<body.body[1].content>>,
     locationName |-> IF body.location = <<>> THEN <<>> ELSE <<body.location[1].displayName>>,
     start |-> GraphDateTime(TimedStart.dateTime),
     end |-> GraphDateTime(TimedEnd.dateTime),
     isAllDay |-> <<FALSE>>, isCancelled |-> <<FALSE>>, showAs |-> <<>>,
     attendees |-> <<>>, organizer |-> <<>>, isOrganizer |-> <<>>,
     createdDateTime |-> <<>>, lastModifiedDateTime |-> <<>>, webLink |-> <<>>,
     seriesMasterId |-> <<>>, sensitivity |-> body.sensitivity,
     isReminderOn |-> <<>>, reminderMinutesBeforeStart |-> <<>>, recurrence |-> <<>>]

InitVisibility ==
    /\ NoProgram
    /\ input \in VisibilityParams
    /\ output = <<>>

\* The response to the request sent is mapped and returned.
MapResponse ==
    /\ output # <<>>
    /\ output[1].fn \in {"outlook.createEvent", "outlook.updateEvent"}
    /\ output' = <<[fn |-> "outlook.mapEvent", sent |-> output[1].value,
                    value |-> graphMapEvent(GraphResponse(output[1].value), "primary")]>>
    /\ UNCHANGED <<now, instances, stats, calls, lastSettled, toolsProvider,
                   registryCalls, requests, input, huVars>>

NextVisibility ==
    \/ ApplyOutlookCreateEvent
    \/ ApplyOutlookUpdateEvent
    \/ MapResponse

SpecVisibility == InitVisibility /\ [][NextVisibility]_vars

(***************************************************************************)
(* validation.ts: the schemas of the REST request bodies and the           *)
(* conversion of a parsed body to the adapters' params.  A parsed object   *)
(* has <<>> for a key it lacks and <<value>> otherwise; a string the       *)
(* converters test for truthiness is a sequence of characters, the empty   *)
(* string being <<>>.                                                      *)
(***************************************************************************)
ZodRecurrence(frequency, interval, count, until, byDay, byMonthDay, byMonth) ==
    [frequency |-> frequency, interval |-> interval, count |-> count, until |-> until,
     byDay |-> byDay, byMonthDay |-> byMonthDay, byMonth |-> byMonth]

ZodDateTime(dateTime, date, timeZone) ==
    [dateTime |-> dateTime, date |-> date, timeZone |-> timeZone]

\* z.array(element).optional()
OptionalArrayOf(field, allowed) ==
    field = <<>> \/ \A k \in 1..Len(field[1]) : field[1][k] \in allowed

\* z.number().int().min(1).optional()
OptionalAtLeastOne(field) == field = <<>> \/ field[1] >= 1

\* recurrenceRuleSchema.safeParse(data).success
recurrenceRuleSchema_NoRefine(data) ==
    /\ data.frequency \in Frequencies
    /\ OptionalAtLeastOne(data.interval)
    /\ OptionalAtLeastOne(data.count)
    /\ OptionalArrayOf(data.byDay, {Weekday[d] : d \in DOMAIN Weekday})
    /\ OptionalArrayOf(data.byMonthDay, 1..31)
    /\ OptionalArrayOf(data.byMonth, 1..12)

recurrenceRuleSchema(data) ==
    /\ data.frequency \in Frequencies
    /\ OptionalAtLeastOne(data.interval)
    /\ OptionalAtLeastOne(data.count)
    /\ OptionalArrayOf(data.byDay, {Weekday[d] : d \in DOMAIN Weekday})
    /\ OptionalArrayOf(data.byMonthDay, 1..31)
    /\ OptionalArrayOf(data.byMonth, 1..12)
    /\ ~(data.count # <<>> /\ data.until # <<>>)

\* dateTimeSchema.safeParse(data).success
dateTimeSchema(data) == data.dateTime # <<>> \/ data.date # <<>>

\* dt.dateTime ? timed : allDay with dt.date! (undefined, <<>>, when the
\* key is missing; a date that is given is <<chars>>).
toEventDateTime(dt) ==
    IF dt.dateTime # <<>> /\ dt.dateTime[1] # <<>>
    THEN [kind |-> "timed", dateTime |-> dt.dateTime, timeZone |-> dt.timeZone, date |-> <<>>]
    ELSE [kind |-> "allDay", dateTime |-> <<>>, timeZone |-> <<>>, date |-> dt.date]

\* recurrence.count ? count : recurrence.until ? until : forever
toRecurrenceRule(recurrence) ==
    RecurrenceRule(recurrence.frequency, recurrence.interval,
                   <<IF recurrence.count # <<>> /\ recurrence.count[1] # 0
                     THEN EndCount(recurrence.count[1])
                     ELSE IF recurrence.until # <<>> /\ recurrence.until[1] # <<>>
                     THEN EndUntil(recurrence.until[1])
                     ELSE EndForever>>,
                   recurrence.byDay, recurrence.byMonthDay, recurrence.byMonth)

ZodRecurrences ==
    {ZodRecurrence(f, i, c, u, d, md, <<>>) :
        f \in {RecurrenceFrequency.WEEKLY, "hourly"},
        i \in {<<>>, <<0>>, <<2>>},
        c \in {<<>>, <<0>>, <<10>>},
        u \in {<<>>, << <<>> >>, <<Date1231>>},
        d \in {<<>>, << <<Weekday.MONDAY, Weekday.FRIDAY>> >>},
        md \in {<<>>, << <<15, 32>> >>}}

ZodDateTimes ==
    {ZodDateTime(dt, d, tz) :
        dt \in {<<>>, << <<>> >>, <<TimedStart.dateTime>>, <<OffsetDateTime>>},
        d \in {<<>>, << <<>> >>, <<Date0115>>, <<Date1231>>},
        tz \in {<<>>, <<"UTC">>, <<"America/New_York">>}}

InitValidation ==
    /\ NoProgram
    /\ input \in {[field |-> "recurrence", data |-> r] : r \in ZodRecurrences}
                 \cup {[field |-> "start", data |-> dt] : dt \in ZodDateTimes}
    /\ output = <<>>

\* The handler parses the body and answers 400 VALIDATION_ERROR, or converts
\* the parsed data to the params it gives the adapter.
ParseRecurrence ==
    /\ input.field = "recurrence"
    /\ Returns("toRecurrenceRule",
               IF recurrenceRuleSchema(input.data)
               THEN [accepted |-> TRUE, params |-> <<toRecurrenceRule(input.data)>>]
               ELSE [accepted |-> FALSE, params |-> <<>>])

ParseDateTime ==
    /\ input.field = "start"
    /\ Returns("toEventDateTime",
               IF dateTimeSchema(input.data)
               THEN [accepted |-> TRUE, params |-> <<toEventDateTime(input.data)>>]
               ELSE [accepted |-> FALSE, params |-> <<>>])

NextValidation ==
    \/ ParseRecurrence
    \/ ParseDateTime

SpecValidation == InitValidation /\ [][NextValidation]_vars

(***************************************************************************)
(* hu-client.ts: the voice agent.  The VoiceAgent of the SDK is the        *)
(* environment: it delivers connect, disconnect, error, session-end,       *)
(* interrupt and utterance events, one callback at a time.  A callback     *)
(* runs to its end or to its next await; handleUtterance awaits            *)
(* lookupJanusUser and every chunk of the response stream.                 *)
(***************************************************************************)
SESSION_TTL_MS == 30 * 60 * 1000
CLEANUP_INTERVAL_MS == 60 * 1000
RECONNECT_DELAY_MS == 5000
MAX_RECONNECT_ATTEMPTS == 5
HISTORY_LIMIT == 20

MaxUtterances == 2
MaxChunks == 1
MaxTimeouts == 3
MaxMinutes == 33

SessionIds == {"session-1", "session-2"}

\* The userId of an utterance: none, a Hu user linked to a Janus account,
\* a Hu user with no link.
HuUserIds == {<<>>, <<"hu-linked">>, <<"hu-unlinked">>}

\* What lookupJanusUser can resolve to: the linked user's id, or null when
\* there is no link or the query fails.
lookupJanusUser(huUserId) ==
    IF huUserId = <<"hu-linked">> THEN {<<"user-123">>, <<>>} ELSE {<<>>}

Message(role, turn) == [role |-> role, turn |-> turn]

HuSession(sessionId, huUserId, janusUserId, conversationHistory, lastActivity) ==
    [sessionId |-> sessionId, huUserId |-> huUserId, janusUserId |-> janusUserId,
     conversationHistory |-> conversationHistory, lastActivity |-> lastActivity]

\* A handleUtterance call: its ctx, the await it is suspended at, the
\* session object it holds (0: none yet) and the response received so far.
Utterance(sessionId, huUserId, turn) ==
    [sessionId |-> sessionId, huUserId |-> huUserId, turn |-> turn, pc |-> "start",
     session |-> 0, fullResponse |-> <<>>, aborted |-> FALSE]

\* sessions.delete(sessionId)
Without(map, key) ==
    IF DOMAIN map \ {key} = {} THEN <<>>
    ELSE [k \in DOMAIN map \ {key} |-> map[k]]

\* sessions.set(sessionId, session)
With(map, key, value) == [k \in DOMAIN map \cup {key} |-> IF k = key THEN value ELSE map[k]]

\* A reference to a fresh object.
Fresh(recs) == CHOOSE k \in 1..(Cardinality(DOMAIN recs) + 1) : k \notin DOMAIN recs

\* The objects still referenced by the map or by a suspended handler.
Referenced(recs, sess, utts) ==
    LET live == {sess[s] : s \in DOMAIN sess} \cup {utts[i].session : i \in DOMAIN utts}
        kept == DOMAIN recs \cap live
    IN  IF kept = {} THEN <<>> ELSE [k \in kept |-> recs[k]]

\* fullResponse.trim() is not empty.
Trimmed(fullResponse) == \E i \in 1..Len(fullResponse) : fullResponse[i] # " "

\* array.pop()
Pop(array) == IF array = <<>> THEN <<>> ELSE SubSeq(array, 1, Len(array) - 1)

\* array.slice(-n)
LastN(array, n) ==
    IF Len(array) <= n THEN array ELSE SubSeq(array, Len(array) - n + 1, Len(array))

\* handleUtterance from the check of the link (line 122): the welcome
\* answer and return, or the user message pushed and the stream awaited.
FromLinkCheck(recs, u) ==
    IF recs[u.session].janusUserId = <<>>
    THEN [records |-> recs, suspended |-> <<>>]
    ELSE [records |-> [recs EXCEPT ![u.session].conversationHistory =
                                       Append(@, Message("user", u.turn))],
          suspended |-> <<[u EXCEPT !.pc = "stream"]>>]

\* handleUtterance from session.lastActivity = Date.now() (line 116).
FromLastActivity(recs, u, t) ==
    LET touched == [recs EXCEPT ![u.session].lastActivity = t]
    IN  IF u.huUserId # <<>> /\ touched[u.session].janusUserId = <<>>
        THEN [records |-> touched, suspended |-> <<[u EXCEPT !.pc = "lookupLink"]>>]
        ELSE FromLinkCheck(touched, u)

\* handleUtterance after the stream (line 155): the answer is pushed or the
\* user message popped, and the history cut to its last 20 messages.  The
\* slice only runs when the history is kept in place: a push or pop that
\* throws is not modelled.
AfterStream(recs, u) ==
    LET history == recs[u.session].conversationHistory
        answered == IF Trimmed(u.fullResponse)
                    THEN Append(history, Message("assistant", u.turn))
                    ELSE Pop(history)
    IN  [recs EXCEPT ![u.session].conversationHistory = LastN(answered, HISTORY_LIMIT)]

\* cleanupStaleSessions: the map without the sessions idle for more than
\* SESSION_TTL_MS.
cleanupStaleSessions_AtTtl(sess, recs, t) ==
    LET kept == {s \in DOMAIN sess : ~(t - recs[sess[s]].lastActivity >= SESSION_TTL_MS)}
    IN  IF kept = {} THEN <<>> ELSE [s \in kept |-> sess[s]]

cleanupStaleSessions(sess, recs, t) ==
    LET kept == {s \in DOMAIN sess : ~(t - recs[sess[s]].lastActivity > SESSION_TTL_MS)}
    IN  IF kept = {} THEN <<>> ELSE [s \in kept |-> sess[s]]

\* Math.pow(2, n)
RECURSIVE Pow2(_)
Pow2(n) == IF n <= 0 THEN 1 ELSE 2 * Pow2(n - 1)

\* scheduleReconnect: the counter and the timeouts after the call.
scheduleReconnect_Linear(attempts, pending) ==
    IF attempts >= MAX_RECONNECT_ATTEMPTS
    THEN [reconnectAttempts |-> attempts, timeouts |-> pending]
    ELSE [reconnectAttempts |-> attempts + 1,
          timeouts |-> Append(pending, [attempt |-> attempts + 1,
                                        delay |-> RECONNECT_DELAY_MS * (attempts + 1)])]

scheduleReconnect(attempts, pending) ==
    IF attempts >= MAX_RECONNECT_ATTEMPTS
    THEN [reconnectAttempts |-> attempts, timeouts |-> pending]
    ELSE [reconnectAttempts |-> attempts + 1,
          timeouts |-> Append(pending, [attempt |-> attempts + 1,
                                        delay |-> RECONNECT_DELAY_MS * Pow2(attempts)])]

\* The heap, the map and the suspended handlers after a callback.
Settle(recs, sess, utts) ==
    /\ records' = Referenced(recs, sess, utts)
    /\ sessions' = sess
    /\ utterances' = utts

Remove(seq, i) == SubSeq(seq, 1, i - 1) \o SubSeq(seq, i + 1, Len(seq))

\* startHuAgent: the agent is made, its handlers set, connect() called.
StartHuAgent ==
    /\ connection = "none"
    /\ connection' = "connecting"
    /\ UNCHANGED <<now, calendarVars, sessions, records, utterances, arrived,
                   sessionCleanupInterval, reconnectAttempts, timeouts>>

\* onConnect: the counter is reset and the sweep started unless it runs.
OnConnect ==
    /\ connection = "connecting"
    /\ connection' = "connected"
    /\ reconnectAttempts' = 0
    /\ sessionCleanupInterval' =
          IF sessionCleanupInterval # <<>> THEN sessionCleanupInterval
          ELSE <<[due |-> now + CLEANUP_INTERVAL_MS]>>
    /\ UNCHANGED <<now, calendarVars, sessions, records, utterances, arrived, timeouts>>

\* onDisconnect: sessions.clear() and stopSessionCleanup().
OnDisconnect ==
    /\ connection \in {"connecting", "connected"}
    /\ connection' = "closed"
    /\ Settle(records, <<>>, utterances)
    /\ sessionCleanupInterval' = <<>>
    /\ UNCHANGED <<now, calendarVars, arrived, reconnectAttempts, timeouts>>

\* onError: scheduleReconnect().
OnError ==
    /\ connection # "none"
    /\ reconnectAttempts < MAX_RECONNECT_ATTEMPTS => Len(timeouts) < MaxTimeouts
    /\ LET after == scheduleReconnect(reconnectAttempts, timeouts)
       IN  /\ reconnectAttempts' = after.reconnectAttempts
           /\ timeouts' = after.timeouts
    /\ UNCHANGED <<now, calendarVars, connection, sessions, records, utterances, arrived,
                   sessionCleanupInterval>>

\* A reconnect timeout fires: agent.connect().
ReconnectTimeout ==
    /\ \E i \in DOMAIN timeouts : timeouts' = Remove(timeouts, i)
    /\ connection' = IF connection = "connected" THEN "connected" ELSE "connecting"
    /\ UNCHANGED <<now, calendarVars, sessions, records, utterances, arrived,
                   sessionCleanupInterval, reconnectAttempts>>

\* onSessionEnd: sessions.delete(sessionId).
OnSessionEnd ==
    /\ connection = "connected"
    /\ \E sessionId \in DOMAIN sessions :
          Settle(records, Without(sessions, sessionId), utterances)
    /\ UNCHANGED <<now, calendarVars, connection, arrived, sessionCleanupInterval,
                   reconnectAttempts, timeouts>>

\* A minute passes; the interval timer fires on time.
HuTick ==
    /\ now < Now0 + MaxMinutes * CLEANUP_INTERVAL_MS
    /\ sessionCleanupInterval # <<>> => now < sessionCleanupInterval[1].due
    /\ now' = now + CLEANUP_INTERVAL_MS
    /\ UNCHANGED <<calendarVars, huVars>>

\* The interval timer fires: cleanupStaleSessions().
CleanupStaleSessions ==
    /\ sessionCleanupInterval # <<>>
    /\ now >= sessionCleanupInterval[1].due
    /\ Settle(records, cleanupStaleSessions(sessions, records, now), utterances)
    /\ sessionCleanupInterval' =
          <<[due |-> sessionCleanupInterval[1].due + CLEANUP_INTERVAL_MS]>>
    /\ UNCHANGED <<now, calendarVars, connection, arrived, reconnectAttempts, timeouts>>

\* onUtterance with a final utterance (one that is not final returns at
\* once): handleUtterance up to its first await or its return.
HandleUtteranceOf(sessionIds, huUserIds) ==
    /\ connection = "connected"
    /\ \E sessionId \in sessionIds, huUserId \in huUserIds :
          LET u == Utterance(sessionId, huUserId, arrived + 1)
              made == Fresh(records)
              after ==
                IF sessionId \in DOMAIN sessions
                THEN FromLastActivity(records, [u EXCEPT !.session = sessions[sessionId]], now)
                ELSE IF huUserId # <<>>
                THEN [records |-> records, suspended |-> <<[u EXCEPT !.pc = "lookupNew"]>>]
                ELSE FromLastActivity(
                        With(records, made, HuSession(sessionId, huUserId, <<>>, <<>>, now)),
                        [u EXCEPT !.session = made], now)
              created == sessionId \notin DOMAIN sessions /\ huUserId = <<>>
          IN  /\ after.suspended # <<>> => arrived < MaxUtterances
              /\ arrived' = IF after.suspended # <<>> THEN arrived + 1 ELSE arrived
              /\ Settle(after.records,
                        IF created THEN With(sessions, sessionId, made) ELSE sessions,
                        utterances \o after.suspended)
    /\ UNCHANGED <<now, calendarVars, connection, sessionCleanupInterval,
                   reconnectAttempts, timeouts>>

HandleUtterance == HandleUtteranceOf(SessionIds, HuUserIds)

\* lookupJanusUser resolves: the new session is made and set in the map
\* (line 105), or the session's link is set (line 119), and the handler
\* goes on.
LookupReturn ==
    /\ \E i \in DOMAIN utterances :
          LET u == utterances[i]
              made == Fresh(records)
          IN  /\ u.pc \in {"lookupNew", "lookupLink"}
              /\ \E janusUserId \in lookupJanusUser(u.huUserId) :
                    LET after ==
                          IF u.pc = "lookupNew"
                          THEN FromLastActivity(
                                  With(records, made,
                                       HuSession(u.sessionId, u.huUserId, janusUserId,
                                                 <<>>, now)),
                                  [u EXCEPT !.session = made], now)
                          ELSE FromLinkCheck(
                                  [records EXCEPT ![u.session].janusUserId = janusUserId], u)
                    IN  Settle(after.records,
                               IF u.pc = "lookupNew"
                               THEN With(sessions, u.sessionId, made) ELSE sessions,
                               Remove(utterances, i) \o after.suspended)
    /\ UNCHANGED <<now, calendarVars, connection, arrived, sessionCleanupInterval,
                   reconnectAttempts, timeouts>>

\* The stream yields a chunk: the loop breaks when the signal is aborted,
\* else the chunk is added to the response.
StreamChunk ==
    /\ \E i \in DOMAIN utterances :
          LET u == utterances[i]
          IN  /\ u.pc = "stream"
              /\ IF u.aborted
                 THEN Settle(AfterStream(records, u), sessions, Remove(utterances, i))
                 ELSE /\ Len(u.fullResponse) < MaxChunks
                      /\ Settle(records, sessions,
                                [utterances EXCEPT ![i].fullResponse = Append(@, "Sure.")])
    /\ UNCHANGED <<now, calendarVars, connection, arrived, sessionCleanupInterval,
                   reconnectAttempts, timeouts>>

\* The stream ends.
StreamEnd ==
    /\ \E i \in DOMAIN utterances :
          /\ utterances[i].pc = "stream"
          /\ Settle(AfterStream(records, utterances[i]), sessions, Remove(utterances, i))
    /\ UNCHANGED <<now, calendarVars, connection, arrived, sessionCleanupInterval,
                   reconnectAttempts, timeouts>>

\* The stream throws: the catch answers with the error message.
StreamFail ==
    /\ \E i \in DOMAIN utterances :
          /\ utterances[i].pc = "stream"
          /\ Settle(records, sessions, Remove(utterances, i))
    /\ UNCHANGED <<now, calendarVars, connection, arrived, sessionCleanupInterval,
                   reconnectAttempts, timeouts>>

\* onInterrupt: the SDK aborts the signals of answers under way in the
\* session (any of them), and the handler pops a trailing user message.
OnInterrupt ==
    /\ connection = "connected"
    /\ \E sessionId \in SessionIds :
          \E aborted \in SUBSET {i \in DOMAIN utterances :
                                    utterances[i].sessionId = sessionId} :
            LET history == IF sessionId \in DOMAIN sessions
                           THEN records[sessions[sessionId]].conversationHistory ELSE <<>>
                popped == IF history # <<>> /\ history[Len(history)].role = "user"
                          THEN [records EXCEPT ![sessions[sessionId]].conversationHistory =
                                                   Pop(@)]
                          ELSE records
            IN  Settle(popped, sessions,
                       [i \in DOMAIN utterances |->
                           IF i \in aborted THEN [utterances[i] EXCEPT !.aborted = TRUE]
                           ELSE utterances[i]])
    /\ UNCHANGED <<now, calendarVars, connection, arrived, sessionCleanupInterval,
                   reconnectAttempts, timeouts>>

(***************************************************************************)
(* The voice agent under three environments: the session map under the    *)
(* clock and the sweep, with utterances of users that have no Hu id and    *)
(* so are answered without an await; the conversation of one session of a  *)
(* linked user, taken up with an empty history or after ten answered       *)
(* turns; and the connection with its errors and reconnect timeouts.       *)
(***************************************************************************)
HandleAnonymousUtterance == HandleUtteranceOf(SessionIds, {<<>>})

NextSessions ==
    \/ StartHuAgent
    \/ OnConnect
    \/ OnDisconnect
    \/ OnSessionEnd
    \/ HandleAnonymousUtterance
    \/ HuTick
    \/ CleanupStaleSessions

SpecSessions == Init /\ [][NextSessions]_vars

\* The history after n answered turns, numbered from 101.
AnsweredTurns(n) ==
    [k \in 1..(2 * n) |-> Message(IF k % 2 = 1 THEN "user" ELSE "assistant", 100 + (k + 1) \div 2)]

\* The agent connected, and session-1 of the linked user new or ten turns old.
InitConversation ==
    /\ now = Now0
    /\ instances = <<>> /\ stats = <<>> /\ calls = {} /\ lastSettled = <<>>
    /\ toolsProvider = 0 /\ registryCalls = {} /\ requests = <<>>
    /\ input = <<>> /\ output = <<>>
    /\ connection = "connected"
    /\ sessionCleanupInterval = <<[due |-> Now0 + CLEANUP_INTERVAL_MS]>>
    /\ reconnectAttempts = 0 /\ timeouts = <<>>
    /\ utterances = <<>> /\ arrived = 0
    /\ \/ sessions = <<>> /\ records = <<>>
       \/ /\ sessions = With(<<>>, "session-1", 1)
          /\ records = With(<<>>, 1, HuSession("session-1", <<"hu-linked">>, <<"user-123">>,
                                               AnsweredTurns(10), Now0))

HandleLinkedUtterance == HandleUtteranceOf({"session-1"}, {<<"hu-linked">>})

NextConversation ==
    \/ HandleLinkedUtterance
    \/ LookupReturn
    \/ StreamChunk
    \/ StreamEnd
    \/ StreamFail
    \/ OnInterrupt

SpecConversation == InitConversation /\ [][NextConversation]_vars

NextReconnect ==
    \/ StartHuAgent
    \/ OnConnect
    \/ OnDisconnect
    \/ OnError
    \/ ReconnectTimeout
    \/ HandleAnonymousUtterance
    \/ OnSessionEnd

SpecReconnect == Init /\ [][NextReconnect]_vars

(***************************************************************************)
(* REST handlers that take a body (events.ts POST, events/$eventId.ts      *)
(* PATCH): after the provider id, request.json() is awaited and the body   *)
(* parsed with the schema, before the registry is called.                  *)
(***************************************************************************)
\* The parsed JSON of a body, by the keys the schemas can reject.
EventBody(summary, start, end, recurrence) ==
    [summary |-> summary, start |-> start, end |-> end, recurrence |-> recurrence]

\* createEventSchema.safeParse(body).success
createEventSchema_AcceptAll(data) == TRUE

createEventSchema(data) ==
    /\ data.summary # <<>> /\ data.summary[1] # ""
    /\ data.start # <<>> /\ dateTimeSchema(data.start[1])
    /\ data.end # <<>> /\ dateTimeSchema(data.end[1])
    /\ data.recurrence # <<>> => recurrenceRuleSchema(data.recurrence[1])

\* updateEventSchema.safeParse(body).success
updateEventSchema(data) ==
    /\ data.summary # <<>> => data.summary[1] # ""
    /\ data.start # <<>> => dateTimeSchema(data.start[1])
    /\ data.end # <<>> => dateTimeSchema(data.end[1])
    /\ data.recurrence # <<>> => recurrenceRuleSchema(data.recurrence[1])

\* A body that is no JSON, and JSON bodies with and without a summary, with
\* no start, a start of a time zone only and a timed start, and with no
\* recurrence or one that has both a count and an until.
RequestBodies ==
    {[json |-> FALSE, data |-> <<>>]}
    \cup {[json |-> TRUE, data |-> <<EventBody(s, st, <<ZodDateTime(<<>>, <<Date0115>>, <<>>)>>, rec)>>] :
            s \in {<<>>, <<"X">>},
            st \in {<<>>, <<ZodDateTime(<<>>, <<>>, <<"UTC">>)>>,
                    <<ZodDateTime(<<TimedStart.dateTime>>, <<>>, <<>>)>>},
            rec \in {<<>>, <<ZodRecurrence(RecurrenceFrequency.WEEKLY, <<>>, <<10>>,
                                          <<Date1231>>, <<>>, <<>>, <<>>)>>}}

RestArriveWithBody ==
    RestArriveWith(BodyRoutes, {"google", "bogus"}, BOOLEAN, RequestBodies)

\* request.json() settles: 400 INVALID_JSON when it rejects, 400
\* VALIDATION_ERROR when the schema fails, else the handler goes on to the
\* registry and the capability call.
RestParse ==
    \E r \in 1..Len(requests) :
       /\ requests[r].pc = "json"
       /\ LET req == requests[r]
              success == IF req.route = "POST /api/v1/calendars/$calendarId/events"
                         THEN createEventSchema(req.body.data[1])
                         ELSE updateEventSchema(req.body.data[1])
          IN  IF ~req.body.json
              THEN /\ requests' = [requests EXCEPT ![r].pc = "responded",
                                                   ![r].response = <<InvalidJson>>]
                   /\ UNCHANGED <<instances, stats, calls, registryCalls>>
              ELSE IF ~success
              THEN /\ requests' = [requests EXCEPT ![r].pc = "responded",
                                                   ![r].response = <<ValidationFailed>>]
                   /\ UNCHANGED <<instances, stats, calls, registryCalls>>
              ELSE RestCall(r, req, req.providerId)
       /\ UNCHANGED <<now, lastSettled, toolsProvider, input, output, huVars>>

NextRestBody ==
    \/ RestArriveWithBody
    \/ RestArrive
    \/ RestHandle
    \/ RestParse
    \/ TokenReturn
    \/ TokenFail
    \/ IssueUpstream
    \/ UpstreamReturn
    \/ UpstreamFail

SpecRestBody == Init /\ [][NextRestBody]_vars

(***************************************************************************)
(* Properties                                                              *)
(***************************************************************************)
\* What remained of the cached token's life when call c started.
HadCache(c) == c.cachedAtStart # <<>>
RemainingAtStart(c) == c.cachedAtStart[1] - c.now

\* C1: a capability call that starts on an adapter whose cached expiry is
\* more than 60 seconds ahead issues no token-acquisition call.
C1_ReusesCachedToken ==
    \A c \in calls :
        (HadCache(c) /\ RemainingAtStart(c) > 60000) => c.acq = 0

\* Three calls were started on one new adapter, each after the previous one
\* settled, and the adapter made exactly one token acquisition.
C1_Witness ==
    \E c \in calls :
        /\ instances[c.inst].owner = "direct"
        /\ c.n = 3 /\ c.acq = 0
        /\ HadCache(c) /\ RemainingAtStart(c) > 60000
        /\ stats[c.inst].started = 3
        /\ stats[c.inst].acquisitions = 1

\* C2: a capability call that starts with nothing cached, or with 60
\* seconds or less (possibly none) left before the cached expiry, has asked
\* the token collaborator for a token, and has done so before issuing its
\* upstream request.
C2_RefreshesStaleToken ==
    \A c \in calls :
        (~HadCache(c) \/ RemainingAtStart(c) <= 60000) =>
            /\ c.acq = 1
            /\ c.pc = "token" => c.up = 0

\* A call that started with exactly 60 seconds left fetched a token and has
\* gone on to its upstream request.
C2_Witness ==
    \E c \in calls :
        /\ HadCache(c) /\ RemainingAtStart(c) = 60000
        /\ c.acq = 1 /\ c.pc = "upstream"

\* C3: when the token collaborator answers null or without an access token,
\* the call fails with the adapter's not-linked error, has issued no upstream
\* request, and the step leaves every adapter (cached expiry, installed
\* credentials or client) as it was.
NotLinkedMessage(providerId) ==
    IF providerId = "google" THEN "No Google account linked for this user"
    ELSE "No Microsoft account linked for this user"

C3_NotLinkedStep ==
    \A c \in calls :
        (/\ c.pc = "token"
         /\ c \notin calls'
         /\ lastSettled' # <<>>
         /\ lastSettled'[1].inst = c.inst /\ lastSettled'[1].n = c.n
         /\ lastSettled'[1].got # <<>>)
        => /\ lastSettled'[1].got[1].isNull \/ lastSettled'[1].got[1].accessToken = <<>>
           /\ lastSettled'[1].pc = "failed"
           /\ lastSettled'[1].error # <<>>
           /\ lastSettled'[1].error[1].message = NotLinkedMessage(instances[c.inst].providerId)
           /\ lastSettled'[1].up = 0
           /\ instances' = instances

\* C3: every step in which a call fails on an unusable token answer is a
\* not-linked failure without upstream request that leaves the adapters alone.
C3_NotLinkedLeavesCache == [][C3_NotLinkedStep]_vars

\* A token refresh on an adapter that holds a cached token was answered
\* without a usable token.
C3_Witness ==
    /\ lastSettled # <<>>
    /\ lastSettled[1].got # <<>>
    /\ lastSettled[1].n > 1
    /\ instances[lastSettled[1].inst].class = "OutlookCalendarProvider"
    /\ instances[lastSettled[1].inst].tokenExpiresAt # <<>>
    /\ instances[lastSettled[1].inst].client # <<>>

\* C4: no two capability calls on the same adapter are in flight together.
C4_OneCallPerAdapter ==
    \A c1, c2 \in calls : c1.inst = c2.inst => c1 = c2

\* C5: constructing an adapter starts no capability call and asks for no
\* token; and an upstream request is only ever issued by a call whose
\* token-lifecycle check has completed, on an adapter that has obtained a
\* token, through credentials that carry a token.
C5_ConstructionStep ==
    Len(instances') = Len(instances) + 1 =>
        /\ calls' = calls
        /\ stats'[Len(instances')].started = 0
        /\ stats'[Len(instances')].acquisitions = 0
        /\ \A i \in 1..Len(instances) : stats'[i] = stats[i]

C5_TokenCheckFirst ==
    \A c \in calls :
        /\ c.up > 0 =>
              /\ instances[c.inst].tokenExpiresAt # <<>>
              /\ instances[c.inst].client # <<>>
              /\ c.client # <<>>
              /\ stats[c.inst].acquisitions > 0
        /\ c.pc = "token" => c.up = 0

\* C5: construction performs no I/O, and every upstream request follows a
\* completed token check.
C5_NoIOBeforeTokenCheck == [](C5_TokenCheckFirst) /\ [][C5_ConstructionStep]_vars

\* One adapter has been constructed and never called, while a call on
\* another adapter has fetched a token and issued its upstream request.
C5_Witness ==
    /\ \E i \in 1..Len(instances) :
          stats[i].started = 0 /\ instances[i].tokenExpiresAt = <<>>
    /\ \E c \in calls : c.pc = "upstream" /\ c.acq = 1 /\ c.up = 1

\* C6: a capability call issues at most one token-acquisition call and at
\* most one upstream request; a call that fails because a collaborator
\* rejected fails with that collaborator's error, and a call that failed
\* while acquiring its token has issued no upstream request.
C6_NeverRetries ==
    /\ \A c \in calls : c.acq <= 1 /\ c.up <= 1
    /\ lastSettled # <<>> =>
          /\ lastSettled[1].acq <= 1 /\ lastSettled[1].up <= 1
          /\ lastSettled[1].cause # <<>> =>
                /\ lastSettled[1].pc = "failed"
                /\ lastSettled[1].error = lastSettled[1].cause
          /\ (lastSettled[1].pc = "failed" /\ lastSettled[1].error[1] \notin UpstreamErrors)
                => lastSettled[1].up = 0
          /\ lastSettled[1].pc = "done" => lastSettled[1].up = 1

\* A call fetched a token, issued its upstream request, and failed with the
\* error the upstream API rejected with.
C6_Witness ==
    /\ lastSettled # <<>>
    /\ lastSettled[1].pc = "failed"
    /\ lastSettled[1].cause # <<>>
    /\ lastSettled[1].cause[1] \in UpstreamErrors
    /\ lastSettled[1].acq = 1 /\ lastSettled[1].up = 1

\* C7: every adapter the registry hands out is new, with nothing cached and
\* no credentials, and leaves the existing adapters as they are; the first
\* capability call on each adapter performs its own token acquisition.
C7_ConstructionStep ==
    Len(instances') = Len(instances) + 1 =>
        /\ instances'[Len(instances')].tokenExpiresAt = <<>>
        /\ instances'[Len(instances')].client = <<>>
        /\ \A i \in 1..Len(instances) : instances'[i] = instances[i]

C7_FirstCallAcquires ==
    /\ \A c \in calls : c.n = 1 => c.acq = 1
    /\ \A i \in 1..Len(instances) :
          stats[i].started > 0 => stats[i].acquisitions > 0

\* C7: registry calls hand out new adapters that share no token cache.
C7_NoSharedTokenCache == [](C7_FirstCallAcquires) /\ [][C7_ConstructionStep]_vars

\* Two adapters of the same class for the same user: the first holds a
\* token that is good for more than 60 seconds, and the first call on the
\* second is fetching its own token.
C7_Witness ==
    \E c \in calls :
        /\ c.n = 1 /\ c.pc = "token" /\ c.inst = 2
        /\ instances[1].class = instances[2].class
        /\ instances[1].userId = instances[2].userId
        /\ instances[1].tokenExpiresAt # <<>>
        /\ instances[1].tokenExpiresAt[1] - c.now > 60000

\* C8: when the token collaborator gives a token without an expiry, the
\* adapter caches the `now` its token check read plus 3600 seconds; a later
\* call on that adapter fetches no token while more than 60 seconds of that
\* hour remain, and fetches one otherwise.
C8_DefaultCached ==
    \A i \in 1..Len(instances) :
        stats[i].defaultedAt # <<>> =>
            instances[i].tokenExpiresAt = <<stats[i].defaultedAt[1] + 3600000>>

C8_CallOnDefaultStep ==
    \A i \in 1..Len(instances) :
        (/\ stats[i].defaultedAt # <<>>
         /\ stats'[i].started = stats[i].started + 1)
        => (stats'[i].acquisitions = stats[i].acquisitions
              <=> stats[i].defaultedAt[1] + 3600000 - now > 60000)

\* C8: a token without an expiry is cached for one hour from the `now` of
\* the token check, and is reused or refreshed accordingly.
C8_DefaultExpiryOneHour == [](C8_DefaultCached) /\ [][C8_CallOnDefaultStep]_vars

\* A token without an expiry was cached by a call whose answer came later
\* than the call started, and a call that starts with 60.001 seconds of the
\* hour left reuses it.
C8_Witness ==
    \E c \in calls :
        /\ stats[c.inst].defaultedAt # <<>>
        /\ c.cachedAtStart = <<stats[c.inst].defaultedAt[1] + 3600000>>
        /\ c.now > stats[c.inst].defaultedAt[1]
        /\ RemainingAtStart(c) = 60001
        /\ c.acq = 0

\* C9: a request naming 'apple' reaches the registry, which throws
\* UnsupportedProviderError, and is not answered as an invalid provider; a
\* request naming an id that is none of the provider ids is answered 400
\* INVALID_PROVIDER without the registry being called; no registry call
\* carries an unknown id.
KnownIds == {"google", "outlook", "apple"}

RequestedId(req) == IF req.param = "" THEN "google" ELSE toLowerCase(req.param)

C10_RegistryDispatch ==
    /\ \A rc \in registryCalls :
          /\ rc.providerId = "google" =>
                /\ ~rc.threw
                /\ instances[rc.instance].class = "GoogleCalendarProvider"
                /\ instances[rc.instance].providerId = "google"
          /\ rc.providerId = "outlook" =>
                /\ ~rc.threw
                /\ instances[rc.instance].class = "OutlookCalendarProvider"
                /\ instances[rc.instance].providerId = "outlook"
          /\ rc.providerId = "apple" =>
                /\ rc.threw
                /\ rc.instance = 0
                /\ rc.error = <<[name |-> "UnsupportedProviderError",
                                 message |-> "Calendar provider 'apple' is not supported yet",
                                 code |-> 0]>>
    /\ Cardinality({rc \in registryCalls : ~rc.threw}) = Len(instances)

\* The registry has been asked for 'apple' and for 'outlook'.
C10_Witness ==
    /\ \E rc \in registryCalls : rc.providerId = "apple" /\ rc.threw
    /\ \E rc \in registryCalls : rc.providerId = "outlook" /\ ~rc.threw
    /\ Len(instances) = 1

\* The step settles a call that failed for a missing linked account.
SettlesNotLinked(c) ==
    /\ c \notin calls'
    /\ lastSettled' # <<>>
    /\ lastSettled'[1].inst = c.inst /\ lastSettled'[1].n = c.n
    /\ lastSettled'[1].got # <<>>

SettlesOtherwiseFailed(c) ==
    /\ c \notin calls'
    /\ lastSettled' # <<>>
    /\ lastSettled'[1].inst = c.inst /\ lastSettled'[1].n = c.n
    /\ lastSettled'[1].pc = "failed"
    /\ lastSettled'[1].got = <<>>

NotLinkedResponse == [status |-> 400, code |-> "CALENDAR_NOT_LINKED"]

C11_SettleStep ==
    \A c \in calls :
        /\ \A r \in 1..Len(requests) :
              (requests[r].pc = "call" /\ requests[r].instance = c.inst) =>
                 /\ SettlesNotLinked(c) => requests'[r].response = <<NotLinkedResponse>>
                 /\ SettlesOtherwiseFailed(c) =>
                       /\ requests'[r].response # <<>>
                       /\ requests'[r].response[1].code # "CALENDAR_NOT_LINKED"
        /\ c.inst = toolsProvider =>
              /\ SettlesNotLinked(c) =>
                    /\ lastSettled'[1].toolError # <<>>
                    /\ lastSettled'[1].toolError[1].code = "NOT_LINKED"
              /\ SettlesOtherwiseFailed(c) =>
                    /\ lastSettled'[1].toolError # <<>>
                    /\ lastSettled'[1].toolError[1].code # "NOT_LINKED"

C11_UnsupportedNotNotLinked ==
    \A r \in 1..Len(requests) :
        requests[r].registry = "threw" =>
            /\ requests[r].response # <<>>
            /\ requests[r].response[1].code # "CALENDAR_NOT_LINKED"

PlainRules ==
    {r \in RecurrenceRules : r.byDay = <<>> /\ r.byMonthDay = <<>> /\ r.byMonth = <<>>}

\* The plain rules that say nothing the encoding leaves out: the interval is
\* absent or greater than 1, and the end is absent, a count, or an until
\* value without fractional seconds.
CanonicalRules ==
    {r \in PlainRules :
        /\ r.interval = <<>> \/ r.interval[1] > 1
        /\ r.end # <<>> => r.end[1].type \in {"count", "until"}
        /\ (r.end # <<>> /\ r.end[1].type = "until") => "." \notin {r.end[1].until[k] : k \in 1..Len(r.end[1].until)}}

Encoded == output # <<>> /\ output[1].fn = "buildRruleString"

PartOrder ==
    ("FREQ" :> 1) @@ ("INTERVAL" :> 2) @@ ("COUNT" :> 3) @@ ("UNTIL" :> 3)
    @@ ("BYDAY" :> 4) @@ ("BYMONTHDAY" :> 5) @@ ("BYMONTH" :> 6)

HasPart(parts, key) == \E k \in 1..Len(parts) : parts[k].key = key

PartValue(parts, key) == parts[CHOOSE k \in 1..Len(parts) : parts[k].key = key].value

\* C15: the string is 'RRULE:' and the ';'-joined parts; the parts come in
\* the order FREQ, INTERVAL, COUNT or UNTIL, BYDAY, BYMONTHDAY, BYMONTH; FREQ
\* is always there, INTERVAL only for an interval greater than 1, COUNT or
\* UNTIL only for a count or until end and never both, each BY part only for
\* a non-empty list, its elements comma-joined in input order.
C15_RruleStringLayout ==
    Encoded =>
        LET parts == output[1].value.parts
            rule == input.rule
        IN  /\ output[1].value.string =
                  "RRULE:" \o join([k \in 1..Len(parts) |->
                                       parts[k].key \o "=" \o parts[k].value], ";")
            /\ parts[1].key = "FREQ"
            /\ \A k \in 1..Len(parts) : parts[k].key \in DOMAIN PartOrder
            /\ \A k \in 1..(Len(parts) - 1) :
                  PartOrder[parts[k].key] < PartOrder[parts[k + 1].key]
            /\ HasPart(parts, "INTERVAL") <=> (rule.interval # <<>> /\ rule.interval[1] > 1)
            /\ HasPart(parts, "COUNT") <=> (rule.end # <<>> /\ rule.end[1].type = "count")
            /\ HasPart(parts, "UNTIL") <=> (rule.end # <<>> /\ rule.end[1].type = "until")
            /\ HasPart(parts, "BYDAY") <=> (rule.byDay # <<>> /\ rule.byDay[1] # <<>>)
            /\ HasPart(parts, "BYMONTHDAY") <=>
                  (rule.byMonthDay # <<>> /\ rule.byMonthDay[1] # <<>>)
            /\ HasPart(parts, "BYMONTH") <=> (rule.byMonth # <<>> /\ rule.byMonth[1] # <<>>)
            /\ rule.byDay = << <<"MO", "FR">> >> => PartValue(parts, "BYDAY") = "MO,FR"
            /\ rule.byDay = << <<"FR", "MO">> >> => PartValue(parts, "BYDAY") = "FR,MO"
            /\ rule.byMonthDay = << <<15, 1>> >> => PartValue(parts, "BYMONTHDAY") = "15,1"
            /\ rule.byMonth = << <<7, 1>> >> => PartValue(parts, "BYMONTH") = "7,1"
            /\ rule = RecurrenceRule("daily", <<>>, <<>>, <<>>, <<>>, <<>>)
                  => output[1].value.string = "RRULE:FREQ=DAILY"
            /\ rule = RecurrenceRule("monthly", <<>>, <<EndUntil(Date1231)>>, <<>>, <<>>, <<>>)
                  => output[1].value.string = "RRULE:FREQ=MONTHLY;UNTIL=20241231"
            /\ rule = RecurrenceRule("weekly", <<2>>, <<EndCount(20)>>,
                                     << <<"MO", "FR">> >>, <<>>, <<>>)
                  => output[1].value.string =
                        "RRULE:FREQ=WEEKLY;INTERVAL=2;COUNT=20;BYDAY=MO,FR"

\* The rule of the 'complex recurrence' test has been encoded, and so has,
\* elsewhere, a rule with every part.
C15_Witness ==
    /\ Encoded
    /\ Len(output[1].value.parts) = 6
    /\ output[1].value.string =
          "RRULE:FREQ=YEARLY;INTERVAL=2;COUNT=10;BYDAY=FR,MO;BYMONTHDAY=15,1;BYMONTH=7,1"

GraphBuilt == output # <<>> /\ output[1].fn = "buildGraphRecurrence"

\* C16: the range is 'endDate' with the date portion of the until value for
\* an until end, 'numbered' with the count for a count end, and 'noEnd' with
\* neither endDate nor numberOfOccurrences for a forever or absent end.
C16_GraphRangeType ==
    GraphBuilt =>
        LET range == output[1].value.range
            end == input.rule.end
        IN  /\ range.type \in {"endDate", "numbered", "noEnd"}
            /\ (end # <<>> /\ end[1].type = "until") =>
                  /\ range.type = "endDate"
                  /\ range.endDate = <<"2024-12-31">>
                  /\ range.numberOfOccurrences = <<>>
            /\ (end # <<>> /\ end[1].type = "count") =>
                  /\ range.type = "numbered"
                  /\ range.numberOfOccurrences = <<end[1].count>>
                  /\ range.endDate = <<>>
            /\ (end = <<>> \/ end[1].type = "forever") =>
                  /\ range.type = "noEnd"
                  /\ range.endDate = <<>>
                  /\ range.numberOfOccurrences = <<>>

\* A rule that ends at an instant has been translated.
C16_Witness ==
    /\ GraphBuilt
    /\ input.rule.end # <<>>
    /\ input.rule.end[1].type = "until"
    /\ Len(input.rule.end[1].until) > 10
    /\ output[1].value.range.type = "endDate"

Sent(fn) == output # <<>> /\ output[1].fn = fn

\* C12: updateEvent puts in the upstream payload no value for a field its
\* params leave out, on both adapters; an update with only a summary sends
\* the title and nothing else.
C12_UpdateSendsOnlyGivenFields ==
    /\ Sent("google.updateEvent") =>
          LET body == output[1].value
          IN  /\ \A f \in DOMAIN input : input[f] = <<>> => body[f] = <<>>
              /\ body.summary = input.summary
              /\ input = EventParams(<<"X">>, <<>>, <<>>, <<>>, <<>>, <<>>, <<>>, <<>>, <<>>)
                    => {f \in DOMAIN body : body[f] # <<>>} = {"summary"}
    /\ Sent("outlook.updateEvent") =>
          LET body == output[1].value
          IN  /\ input.summary = <<>> => body.subject = <<>>
              /\ input.description = <<>> => body.body = <<>>
              /\ input.location = <<>> => body.location = <<>>
              /\ input.start = <<>> => (body.start = <<>> /\ body.isAllDay = <<>>)
              /\ input.end = <<>> => body.end = <<>>
              /\ input.attendees = <<>> => body.attendees = <<>>
              /\ input.visibility = <<>> => body.sensitivity = <<>>
              /\ input.reminders = <<>> =>
                    (body.isReminderOn = <<>> /\ body.reminderMinutesBeforeStart = <<>>)
              /\ input.recurrence = <<>> => body.recurrence = <<>>
              /\ body.subject = input.summary
              /\ input = EventParams(<<"X">>, <<>>, <<>>, <<>>, <<>>, <<>>, <<>>, <<>>, <<>>)
                    => {f \in DOMAIN body : body[f] # <<>>} = {"subject"}

\* The Outlook adapter has sent an update that carries only a summary.
C12_Witness ==
    /\ Sent("outlook.updateEvent")
    /\ input = EventParams(<<"X">>, <<>>, <<>>, <<>>, <<>>, <<>>, <<>>, <<>>, <<>>)
    /\ output[1].value.subject = <<"X">>

\* C13: whenever createEvent or updateEvent of the Outlook adapter is given
\* a recurrence rule, the payload carries a recurrence whose range starts on
\* the date of the event's own start, timed or all-day.
C13_OutlookRecurrenceSent ==
    ((Sent("outlook.createEvent") \/ Sent("outlook.updateEvent"))
       /\ input.recurrence # <<>>)
    => /\ output[1].value.recurrence # <<>>
       /\ output[1].value.recurrence[1].range.startDate = "2024-01-15"

Mapped(fn) == output # <<>> /\ output[1].fn = fn

\* The recurrence of the upstream item cannot be read: it lacks its pattern
\* or its range, or its pattern type is no frequency the adapter knows.
UnreadableRecurrence(recurrence) ==
    /\ recurrence # <<>>
    /\ \/ recurrence[1].pattern = <<>>
       \/ recurrence[1].range = <<>>
       \/ recurrence[1].pattern[1].type = <<>>
       \/ recurrence[1].pattern[1].type[1] \notin
             {"daily", "weekly", "absoluteMonthly", "relativeMonthly",
              "absoluteYearly", "relativeYearly"}

EventStatuses == {"confirmed", "tentative", "cancelled"}
Visibilities == {"default", "public", "private", "confidential"}
ResponseStatuses == {"needsAction", "declined", "tentative", "accepted"}

\* C18: every event either adapter returns has a status, a visibility and
\* attendee response statuses of the canonical enums, whatever the upstream
\* values are.
C18_CanonicalEnums ==
    (Mapped("outlook.mapEvent") \/ Mapped("google.mapEvent")) =>
        LET event == output[1].value.value
        IN  /\ event.status \in EventStatuses
            /\ event.visibility # <<>> /\ event.visibility[1] \in Visibilities
            /\ event.attendees # <<>> =>
                  \A k \in 1..Len(event.attendees[1]) :
                      /\ event.attendees[1][k].responseStatus # <<>>
                      /\ event.attendees[1][k].responseStatus[1] \in ResponseStatuses

\* C19: a Graph event whose cancelled flag is true maps to status cancelled
\* whatever its showAs; otherwise the status is the one showAs gives
\* (tentative for 'tentative', confirmed for anything else).
C19_CancelledWins ==
    Mapped("outlook.mapEvent") =>
        LET event == output[1].value.value
            item == input.item
        IN  /\ item.isCancelled = <<TRUE>> => event.status = "cancelled"
            /\ item.isCancelled # <<TRUE>> =>
                  event.status = IF item.showAs = <<"tentative">>
                                 THEN "tentative" ELSE "confirmed"

\* A cancelled event that is shown as tentative has been mapped.
C19_Witness ==
    /\ Mapped("outlook.mapEvent")
    /\ input.item.isCancelled = <<TRUE>>
    /\ input.item.showAs = <<"tentative">>
    /\ output[1].value.value.status = "cancelled"

\* C20: mapped reminders are never a custom list without overrides.  On the
\* Google adapter useDefault=true maps to {type: default}, useDefault=false
\* with overrides to a custom list of one {method, minutes} per override in
\* upstream order, and useDefault=false without overrides to {type: default}.
C20_NoEmptyCustomReminders ==
    /\ (Mapped("outlook.mapEvent") \/ Mapped("google.mapEvent")) =>
          \A r \in {output[1].value.value.reminders[k] :
                        k \in 1..Len(output[1].value.value.reminders)} :
              r.type = "custom" => Len(r.overrides) > 0
    /\ Mapped("google.mapEvent") =>
          LET up == input.item.reminders
              mapped == output[1].value.value.reminders
          IN  /\ up = <<>> => mapped = <<>>
              /\ (up # <<>> /\ up[1].useDefault = <<TRUE>>) =>
                    mapped = <<[type |-> "default", overrides |-> <<>>]>>
              /\ (up # <<>> /\ up[1].useDefault # <<TRUE>>
                    /\ (up[1].overrides = <<>> \/ up[1].overrides[1] = <<>>)) =>
                    mapped = <<[type |-> "default", overrides |-> <<>>]>>
              /\ (up # <<>> /\ up[1].useDefault # <<TRUE>>
                    /\ up[1].overrides # <<>> /\ up[1].overrides[1] # <<>>) =>
                    /\ mapped # <<>>
                    /\ mapped[1].type = "custom"
                    /\ Len(mapped[1].overrides) = Len(up[1].overrides[1])
                    /\ \A k \in 1..Len(up[1].overrides[1]) :
                          /\ mapped[1].overrides[k].method = up[1].overrides[1][k].method
                          /\ mapped[1].overrides[k].minutes = up[1].overrides[1][k].minutes

\* A Google event with useDefault=false and an empty overrides list has been
\* mapped.
C20_Witness ==
    /\ Mapped("google.mapEvent")
    /\ input.item.reminders = <<[useDefault |-> <<FALSE>>, overrides |-> << <<>> >>]>>
    /\ output[1].value.value.reminders = <<[type |-> "default", overrides |-> <<>>]>>

HasTimeOfDay(chars) == \E i \in 1..Len(chars) : chars[i] = "T"

\* The upstream start/end object carries a date-time.
UpstreamHasTime(dt) ==
    dt # <<>> /\ dt[1].dateTime # <<>> /\ HasTimeOfDay(dt[1].dateTime[1])

ExactlyOneVariant(v) ==
    \/ v.kind = "timed" /\ v.dateTime # <<>> /\ HasTimeOfDay(v.dateTime) /\ v.date = <<>>
    \/ v.kind = "allDay" /\ v.dateTime = <<>> /\ v.timeZone = <<>> /\ ~HasTimeOfDay(v.date)

ReadBack == Mapped("outlook.mapEvent") /\ input.visibility # <<>>

\* C22: on the Outlook adapter each of default, public, private and
\* confidential, written as a sensitivity and mapped back on read, comes
\* back as the same visibility.
C22_VisibilityRoundTrip ==
    ReadBack => output[1].value.value.visibility = input.visibility

\* C22, amended: default, private and confidential come back unchanged;
\* public is written as "normal" and comes back as default.
C22_VisibilityRoundTripButPublic ==
    ReadBack =>
        /\ input.visibility # <<Visibility.PUBLIC>> =>
              output[1].value.value.visibility = input.visibility
        /\ input.visibility = <<Visibility.PUBLIC>> =>
              /\ output[1].sent.sensitivity = <<"normal">>
              /\ output[1].value.value.visibility = <<Visibility.DEFAULT>>

C22_Witness ==
    /\ ReadBack
    /\ input.visibility = <<Visibility.CONFIDENTIAL>>
    /\ output[1].sent.sensitivity = <<"confidential">>
    /\ output[1].value.value.visibility = <<Visibility.CONFIDENTIAL>>

\* The handler has parsed the body and handed params to the adapter.
Converted(fn) == Mapped(fn) /\ output[1].value.accepted

ExactlyOneTermination(end) ==
    \/ end.type = "count" /\ end.count >= 1 /\ end.until = <<>>
    \/ end.type = "until" /\ end.until # <<>> /\ end.count = 0
    \/ end = EndForever

\* C23: the REST schema rejects a recurrence with both count and until, and
\* an accepted one converts to exactly one termination: count when a count
\* is given, otherwise until when an until is given, otherwise forever.
C23_OneTerminationAsGiven ==
    /\ Mapped("toRecurrenceRule") /\ input.data.count # <<>> /\ input.data.until # <<>> =>
          ~output[1].value.accepted
    /\ Converted("toRecurrenceRule") =>
          LET end == output[1].value.params[1].end[1]
          IN  /\ ExactlyOneTermination(end)
              /\ end.type = "count" <=> input.data.count # <<>>
              /\ end.type = "until" <=> (input.data.count = <<>> /\ input.data.until # <<>>)

\* C23, amended: as C23, but an until is taken only when it is not the empty
\* string; an accepted recurrence whose until is "" converts to forever.
C23_OneTerminationNonEmptyUntil ==
    /\ Mapped("toRecurrenceRule") /\ input.data.count # <<>> /\ input.data.until # <<>> =>
          ~output[1].value.accepted
    /\ Converted("toRecurrenceRule") =>
          LET end == output[1].value.params[1].end[1]
          IN  /\ ExactlyOneTermination(end)
              /\ end.type = "count" <=> input.data.count # <<>>
              /\ end.type = "count" => end.count = input.data.count[1]
              /\ end.type = "until" <=>
                    /\ input.data.count = <<>>
                    /\ input.data.until # <<>> /\ input.data.until[1] # <<>>
              /\ end.type = "until" => end.until = input.data.until[1]

C23_Witness ==
    /\ Converted("toRecurrenceRule")
    /\ input.data.count = <<>>
    /\ input.data.until = <<Date1231>>
    /\ output[1].value.params[1].end = <<EndUntil(Date1231)>>

\* C30: a start/end that dateTimeSchema accepts converts to a timed value
\* with a non-empty dateTime or to an allDay value with a defined date, and
\* to a timed value when both dateTime and date are given.
C30_WellFormedEventDateTime ==
    Converted("toEventDateTime") =>
        LET v == output[1].value.params[1]
        IN  /\ \/ v.kind = "timed" /\ v.dateTime # <<>> /\ v.dateTime[1] # <<>>
               \/ v.kind = "allDay" /\ v.date # <<>>
            /\ input.data.dateTime # <<>> /\ input.data.date # <<>> => v.kind = "timed"

\* How long the session of an id has been idle.
Idle(sessionId) == now - records[sessions[sessionId]].lastActivity

\* The interval timer fires in this step.
SweepStep ==
    /\ sessionCleanupInterval # <<>> /\ sessionCleanupInterval' # <<>>
    /\ sessionCleanupInterval'[1].due > sessionCleanupInterval[1].due

\* C24: the sessions are a map keyed by session id.  While the agent is
\* connected the sweep is at most 60 seconds away; a sweep removes exactly
\* the sessions idle for more than 30 minutes and keeps the others as they
\* are; sessions otherwise leave the map only one at a time (session end) or
\* all at once on disconnect; so no session in the map was idle for more
\* than 30 minutes at the last sweep.
C24_SessionsSwept ==
    /\ [](/\ DOMAIN sessions \subseteq SessionIds
          /\ \A s \in DOMAIN sessions : records[sessions[s]].sessionId = s
          /\ connection = "connected" =>
                /\ sessionCleanupInterval # <<>>
                /\ sessionCleanupInterval[1].due <= now + CLEANUP_INTERVAL_MS
          /\ connection = "closed" => sessions = <<>> /\ sessionCleanupInterval = <<>>
          /\ sessionCleanupInterval # <<>> =>
                \A s \in DOMAIN sessions :
                    (sessionCleanupInterval[1].due - CLEANUP_INTERVAL_MS)
                        - records[sessions[s]].lastActivity <= SESSION_TTL_MS)
    /\ [][/\ SweepStep =>
                /\ DOMAIN sessions' = {s \in DOMAIN sessions : Idle(s) <= SESSION_TTL_MS}
                /\ \A s \in DOMAIN sessions' :
                      records'[sessions'[s]] = records[sessions[s]]
          /\ (~SweepStep /\ DOMAIN sessions \ DOMAIN sessions' # {}) =>
                \/ connection' = "closed" /\ sessions' = <<>>
                \/ /\ connection' = "connected"
                   /\ Cardinality(DOMAIN sessions \ DOMAIN sessions') = 1]_vars

\* A sweep has just run with one session idle for exactly 30 minutes, which
\* it kept, the other session being gone.
C24_Witness ==
    /\ connection = "connected"
    /\ sessionCleanupInterval = <<[due |-> now + CLEANUP_INTERVAL_MS]>>
    /\ DOMAIN sessions = {"session-2"}
    /\ Idle("session-2") = SESSION_TTL_MS

\* The turns whose utterances are still being handled.
TurnsUnderWay == {utterances[i].turn : i \in DOMAIN utterances}

Messages(history) == {history[k] : k \in 1..Len(history)}

\* The messages in a history of turns that were answered and are over.
OfCompletedTurns(history) ==
    {m \in Messages(history) :
        /\ m.turn \notin TurnsUnderWay
        /\ Message("assistant", m.turn) \in Messages(history)}

\* C25: whatever the interleaving of handleUtterance and the interrupt
\* handler, no message of an earlier completed turn leaves the history of a
\* session except by the cut to 20 messages, and an assistant message is
\* only stored right after the user message it answers.
C25_InterruptSparesEarlierTurns ==
    [][\A s \in DOMAIN sessions \cap DOMAIN sessions' :
          sessions'[s] = sessions[s] =>
            LET before == records[sessions[s]].conversationHistory
                after == records'[sessions'[s]].conversationHistory
            IN  /\ Len(after) < HISTORY_LIMIT =>
                      OfCompletedTurns(before) \subseteq Messages(after)
                /\ \A m \in Messages(after) \ Messages(before) :
                      m.role = "assistant" =>
                          /\ before # <<>>
                          /\ before[Len(before)] = Message("user", m.turn)]_vars

\* C26: one session id has at most one session object: the handlers of its
\* utterances, concurrent ones included, hold the object the map holds
\* (session-1 neither ends nor is swept in this environment).
C26_OneRecordPerSession ==
    /\ \A k1, k2 \in DOMAIN records :
          records[k1].sessionId = records[k2].sessionId => k1 = k2
    /\ \A i \in DOMAIN utterances :
          utterances[i].session # 0 =>
              /\ utterances[i].sessionId \in DOMAIN sessions
              /\ sessions[utterances[i].sessionId] = utterances[i].session

\* C28: once every utterance has been handled to its end, answered or not,
\* interrupted or failed, the history of a session holds at most 20 messages.
C28_HistoryAtMostTwenty ==
    utterances = <<>> =>
        \A s \in DOMAIN sessions :
            Len(records[sessions[s]].conversationHistory) <= HISTORY_LIMIT

\* C29: reconnectAttempts stays within 0..5; the n-th reconnect scheduled
\* since the last successful connect is delayed 5000 * 2^(n-1) ms; a
\* successful connect sets the counter to 0; the counter otherwise only
\* grows, by one per reconnect scheduled, and at 5 an error schedules none.
C29_ReconnectsBounded ==
    /\ [](/\ reconnectAttempts \in 0..MAX_RECONNECT_ATTEMPTS
          /\ \A i \in DOMAIN timeouts :
                /\ timeouts[i].attempt \in 1..MAX_RECONNECT_ATTEMPTS
                /\ timeouts[i].delay = RECONNECT_DELAY_MS * Pow2(timeouts[i].attempt - 1))
    /\ [][/\ (connection = "connecting" /\ connection' = "connected") =>
                reconnectAttempts' = 0
          /\ reconnectAttempts' # reconnectAttempts =>
                \/ connection = "connecting" /\ connection' = "connected"
                \/ reconnectAttempts' = reconnectAttempts + 1
          /\ Len(timeouts') > Len(timeouts) =>
                /\ reconnectAttempts < MAX_RECONNECT_ATTEMPTS
                /\ reconnectAttempts' = reconnectAttempts + 1
                /\ timeouts' = Append(timeouts,
                                      [attempt |-> reconnectAttempts',
                                       delay |-> RECONNECT_DELAY_MS
                                                    * Pow2(reconnectAttempts' - 1)])]_vars

\* The fifth reconnect since the last connect is scheduled, 80 s ahead.
C29_Witness ==
    /\ reconnectAttempts = MAX_RECONNECT_ATTEMPTS
    /\ \E i \in DOMAIN timeouts : timeouts[i] = [attempt |-> 5, delay |-> 80000]


\* What the request's body is, read off the body itself.
NotJson(req) == req.body # NoBody /\ ~req.body.json

LacksSummary(req) ==
    /\ req.body # NoBody /\ req.body.json
    /\ req.body.data[1].summary = <<>>

StartWithoutDate(req) ==
    /\ req.body # NoBody /\ req.body.json
    /\ req.body.data[1].start # <<>>
    /\ req.body.data[1].start[1].dateTime = <<>>
    /\ req.body.data[1].start[1].date = <<>>

CountAndUntil(req) ==
    /\ req.body # NoBody /\ req.body.json
    /\ req.body.data[1].recurrence # <<>>
    /\ req.body.data[1].recurrence[1].count # <<>>
    /\ req.body.data[1].recurrence[1].until # <<>>

FailsSchema(req) ==
    \/ StartWithoutDate(req)
    \/ CountAndUntil(req)
    \/ /\ req.route = "POST /api/v1/calendars/$calendarId/events"
       /\ LacksSummary(req) \/ req.body.data[1].start = <<>>

\* Nothing was done for the request past its checks: no registry call, no
\* adapter.
Untouched(req) == req.registry = "not reached" /\ req.instance = 0

AnsweredBy(req, response) ==
    req.pc = "responded" /\ req.response = <<response>> /\ Untouched(req)

\* C27: in every REST handler the checks run in the order authentication,
\* provider id, request body, schema: a request without a session is answered
\* 401 whatever its provider id and body are, a signed-in request with an
\* invalid provider id 400 INVALID_PROVIDER whatever its body is, one whose
\* body is no JSON 400 INVALID_JSON, one whose body fails the schema 400
\* VALIDATION_ERROR; and for none of them is an adapter constructed, a token
\* acquired or an upstream request made: the adapters, the token acquisitions
\* and the calls are those of the requests that passed every check.
C27_ChecksBeforeAdapter ==
    /\ \A r \in 1..Len(requests) :
          LET req == requests[r]
          IN  /\ req.pc \in {"auth", "json"} => Untouched(req)
              /\ req.pc # "auth" =>
                    /\ ~req.session => AnsweredBy(req, Unauthorized)
                    /\ (req.session /\ RequestedId(req) \notin KnownIds) =>
                          AnsweredBy(req, InvalidProvider)
              /\ (req.pc \notin {"auth", "json"} /\ req.session
                    /\ RequestedId(req) \in KnownIds) =>
                    /\ NotJson(req) => AnsweredBy(req, InvalidJson)
                    /\ (~NotJson(req) /\ req.route \in BodyRoutes /\ FailsSchema(req)) =>
                          AnsweredBy(req, ValidationFailed)
    /\ Len(instances) = Cardinality({r \in 1..Len(requests) : requests[r].instance # 0})
    /\ Len(stats) = Len(instances)
    /\ \A c \in calls : \E r \in 1..Len(requests) :
          requests[r].instance = c.inst /\ ~Untouched(requests[r])
    /\ \A r \in 1..Len(requests) :
          ~Untouched(requests[r]) =>
             /\ requests[r].session
             /\ RequestedId(requests[r]) \in KnownIds
             /\ ~NotJson(requests[r])
             /\ ~(requests[r].route \in BodyRoutes /\ FailsSchema(requests[r]))

\* A signed-in POST for 'google' whose body lacks the summary was answered
\* 400 VALIDATION_ERROR, next to an unauthenticated request with an invalid
\* provider id and a body that is no JSON, answered 401.
C27_Witness ==
    \E r1, r2 \in 1..Len(requests) :
        /\ requests[r1].session /\ requests[r1].param = "google"
        /\ requests[r1].route = "POST /api/v1/calendars/$calendarId/events"
        /\ LacksSummary(requests[r1])
        /\ requests[r1].response = <<ValidationFailed>>
        /\ ~requests[r2].session /\ requests[r2].param = "bogus"
        /\ NotJson(requests[r2])
        /\ requests[r2].response = <<Unauthorized>>

====
